---------------------------- MODULE Spec2Model ----------------------------
(***************************************************************************)
(* minibash: the statement evaluator, the process runner and the SIGCHLD   *)
(* discipline of src/src/minibash.c (second translation unit, lines 545..  *)
(* 1723), the word expander of src/unnamed/part_000 and the stand-alone    *)
(* pipeline runner of src/src/piping.c.                                    *)
(*                                                                         *)
(* The shell is one sequential process (pc) that forks children.  Children *)
(* are entries of procs; they run concurrently with the shell and with     *)
(* each other.  The script is drawn lazily: each dispatch draws the next   *)
(* statement, its kind and its inputs from small sets.                     *)
(***************************************************************************)
EXTENDS Integers, Sequences, FiniteSets, TLC

(***************************************************************************)
(* Bounds of the model.                                                    *)
(***************************************************************************)
MaxStages   == 3   \* commands in one pipeline
MaxStmts    == 2   \* top-level statements in one script
MaxLines    == 1   \* lines read by the interactive loop
MaxOperands == 3   \* named children of one list node
MaxDepth    == 2   \* nesting depth of list nodes
MaxWs       == 1   \* blanks before / after an operator between two operands
MaxRedirs   == 2   \* file_redirect children of one redirected_statement
MaxForkFails == 1  \* fork() calls that fail while one pipeline is started
FlatDepth   == 1   \* nesting depth of the lists of the whole-shell specification
FlatOperands == 2  \* operands of those lists
MaxArgs     == 2   \* children of one command after its name
MaxOut      == 4   \* bytes the child of a command substitution writes
MaxCmdRedirs == 2  \* file_redirect children of one command

(***************************************************************************)
(* Wait statuses, as the C library encodes and decodes them.               *)
(***************************************************************************)
\* how a child can terminate: exit(0), exit(1), SIGSEGV with a core dump
ExitCodes == {0, 1}
TermRecs  == [kind : {"exit"}, val : ExitCodes, core : {FALSE}]
               \cup {[kind |-> "sig", val |-> 11, core |-> TRUE]}

Mut_ExecFailRec == [kind |-> "exit", val |-> 1, core |-> FALSE]

\* execvp / execv returned: free_argv, fflush, _exit(127)
ExecFailRec == [kind |-> "exit", val |-> 127, core |-> FALSE]

\* apply_command_redirections failed in the child: fflush, _exit(1)
RedirFailRec == [kind |-> "exit", val |-> 1, core |-> FALSE]

\* what the kernel stores in *wstatus for a terminated child
RawStatus(rec) ==
    IF rec.kind = "exit" THEN rec.val * 256
    ELSE rec.val + (IF rec.core THEN 128 ELSE 0)

\* values an uninitialised `int st` may hold: zero, a signal status left on
\* the stack by an earlier call, a stopped-child pattern, a value with bits
\* above the low sixteen
UninitInts == {0, 139, 4991, 65536}

WTERMSIG(st)    == st % 128
WIFEXITED(st)   == WTERMSIG(st) = 0
Mut_WEXITSTATUS(st) == st \div 256

WEXITSTATUS(st) == (st \div 256) % 256
WIFSIGNALED(st) == WTERMSIG(st) # 0 /\ WTERMSIG(st) # 127

Mut_status_to_exitcode(st) ==
    IF WIFEXITED(st) THEN WEXITSTATUS(st)
    ELSE IF WIFSIGNALED(st) THEN WTERMSIG(st)
    ELSE 1

status_to_exitcode(st) ==
    IF WIFEXITED(st) THEN WEXITSTATUS(st)
    ELSE IF WIFSIGNALED(st) THEN 128 + WTERMSIG(st)
    ELSE 1

(***************************************************************************)
(* Decimal formatting, snprintf(buf, sizeof buf, "%d", v).                 *)
(***************************************************************************)
DigitChar(d) == CASE d = 0 -> "0" [] d = 1 -> "1" [] d = 2 -> "2" [] d = 3 -> "3"
                  [] d = 4 -> "4" [] d = 5 -> "5" [] d = 6 -> "6" [] d = 7 -> "7"
                  [] d = 8 -> "8" [] OTHER -> "9"

RECURSIVE FormatNat(_)
FormatNat(n) == IF n < 10 THEN <<DigitChar(n)>>
                ELSE Append(FormatNat(n \div 10), DigitChar(n % 10))

FormatD(v) == IF v < 0 THEN <<"-">> \o FormatNat(0 - v) ELSE FormatNat(v)

\* getpid() of the interpreter
ShellPid == 4242

\* getpid() in the process that calls it: the shell (self = 0) or the child in
\* slot self, which fork gave a process id of its own
getpid(self) == IF self = 0 THEN ShellPid ELSE ShellPid + self

(***************************************************************************)
(* Syntax nodes of a command: sym is the grammar symbol, text the source   *)
(* bytes of the node (slice_text), var the text of its variable_name child *)
(* ("" if it has none), parts the named children of a double-quoted string.*)
(* Strings are sequences of one-character strings.                         *)
(***************************************************************************)
Node(sym, text, var, parts) == [sym |-> sym, text |-> text, var |-> var, parts |-> parts]

NullNode      == Node("null", <<>>, "", <<>>)
Word(t)       == Node("word", t, "", <<>>)
RawString(t)  == Node("raw_string", <<"'">> \o t \o <<"'">>, "", <<>>)
Content(t)    == Node("string_content", t, "", <<>>)
SimpleExp(v)  == Node("simple_expansion", <<"$", v>>, v, <<>>)
Special(c)    == Node("simple_expansion", <<"$", c>>, "", <<>>)
BraceExp(v)   == Node("expansion", <<"$", "{", v, "}">>, v, <<>>)
\* ${v:-w}: the named children are the variable_name v and the word w
BraceDefault(v, w) ==
    Node("expansion", <<"$", "{", v, ":", "-">> \o w \o <<"}">>, v, <<Word(w)>>)
CmdSubst      == Node("command_substitution", <<"$", "(", "c", ")">>, "", <<>>)
FileRedirect  == Node("file_redirect", <<">", "f">>, "", <<>>)

RECURSIVE Texts(_)
Texts(ps) == IF ps = <<>> THEN <<>> ELSE ps[1].text \o Texts(Tail(ps))

DqString(ps)  == Node("string", <<"\"">> \o Texts(ps) \o <<"\"">>, "", ps)

DollarDollar   == Special("$")
DollarQuestion == Special("?")

(***************************************************************************)
(* The environment: getenv / setenv.                                       *)
(***************************************************************************)
VarNames == {"A", "B"}
NoValue  == [set |-> FALSE, val |-> <<>>]
EmptyEnv == [n \in VarNames |-> NoValue]

\* getenv(name): NoValue stands for the null pointer
getenv(E, name) == IF name \in DOMAIN E THEN E[name] ELSE NoValue

Mut_setenv(E, name, val, overwrite) ==
    IF E[name].set THEN E ELSE [E EXCEPT ![name] = [set |-> TRUE, val |-> val]]

\* setenv(name, val, overwrite)
setenv(E, name, val, overwrite) ==
    IF E[name].set /\ ~overwrite THEN E
    ELSE [E EXCEPT ![name] = [set |-> TRUE, val |-> val]]

(***************************************************************************)
(* The word expander of part_000.                                          *)
(***************************************************************************)
\* strdup(val ? val : "")
OrEmpty(v) == IF v.set THEN v.val ELSE <<>>

\* expand_simple: "$$" and "$?" are recognised by their text; otherwise the
\* variable_name child is looked up; otherwise the raw text
expand_simple(node, ls, E, pid) ==
    IF node.text = <<"$", "$">> THEN FormatD(pid)
    ELSE IF node.text = <<"$", "?">> THEN FormatD(ls)
    ELSE IF node.var # "" THEN OrEmpty(getenv(E, node.var))
    ELSE node.text

\* expand_brace: ${VAR}
expand_brace(node, E) ==
    IF node.var # "" THEN OrEmpty(getenv(E, node.var)) ELSE node.text

strip_outer_quotes_dup(raw, quote_ch) ==
    IF Len(raw) >= 2 /\ raw[1] = quote_ch /\ raw[Len(raw)] = quote_ch
    THEN SubSeq(raw, 2, Len(raw) - 1)
    ELSE raw

Mut_TrimNewlines(buf) ==
    IF Len(buf) > 0 /\ buf[Len(buf)] = "\n" THEN SubSeq(buf, 1, Len(buf) - 1) ELSE buf

\* while (len > 0 && buf[len - 1] == '\n') buf[--len] = '\0';
RECURSIVE TrimNewlines(_)
TrimNewlines(buf) ==
    IF Len(buf) > 0 /\ buf[Len(buf)] = "\n"
    THEN TrimNewlines(SubSeq(buf, 1, Len(buf) - 1))
    ELSE buf

\* what capture_command_subst returns: sub.ok says that pipe() and fork()
\* succeeded, sub.outp is what the child wrote to the pipe
NoSub == [ok |-> TRUE, outp |-> <<>>]
capture_command_subst(sub) == IF sub.ok THEN TrimNewlines(sub.outp) ELSE <<>>

\* one part of a double-quoted string
render_part(part, ls, E, pid, sub) ==
    CASE part.sym = "string_content"       -> part.text
      [] part.sym = "expansion"            -> expand_brace(part, E)
      [] part.sym = "simple_expansion"     -> expand_simple(part, ls, E, pid)
      [] part.sym = "command_substitution" -> capture_command_subst(sub)
      [] OTHER                             -> part.text

RECURSIVE render_parts(_, _, _, _, _)
render_parts(ps, ls, E, pid, sub) ==
    IF ps = <<>> THEN <<>>
    ELSE render_part(ps[1], ls, E, pid, sub) \o render_parts(Tail(ps), ls, E, pid, sub)

\* render_dq_string: without named children the outer quotes are stripped
render_dq_string(s, ls, E, pid, sub) ==
    IF s.parts = <<>> THEN strip_outer_quotes_dup(s.text, "\"")
    ELSE render_parts(s.parts, ls, E, pid, sub)

expand_one_arg(node, ls, E, pid, sub) ==
    CASE node.sym = "word"                 -> node.text
      [] node.sym = "raw_string"           -> strip_outer_quotes_dup(node.text, "'")
      [] node.sym = "string"               -> render_dq_string(node, ls, E, pid, sub)
      [] node.sym = "simple_expansion"     -> expand_simple(node, ls, E, pid)
      [] node.sym = "expansion"            -> expand_brace(node, E)
      [] node.sym = "command_substitution" -> capture_command_subst(sub)
      [] OTHER                             -> <<>>

node_is_argumenty(n) ==
    n.sym \in {"word", "raw_string", "string", "simple_expansion", "expansion",
               "command_substitution"}

Mut_ArgChildren(children) ==
    SelectSeq(children, LAMBDA n : node_is_argumenty(n) /\ n.text # <<"\"", "\"">>)

\* the children of the command that expand_to_argv turns into arguments
ArgChildren(children) == SelectSeq(children, node_is_argumenty)

\* expand_to_argv: argv[0] from the command_name, then one element for each
\* argument-like child, in source order
expand_to_argv(name, children, ls, E, pid, sub) ==
    LET as == ArgChildren(children)
    IN  <<name>> \o [i \in 1..Len(as) |-> expand_one_arg(as[i], ls, E, pid, sub)]

\* build_argv_words_only: argv[0] is the text of the name, then the text of
\* every child whose symbol is word; children of any other kind are left out
\* and nothing is expanded
build_argv_words_only(name, children) ==
    LET ws == SelectSeq(children, LAMBDA n : n.sym = "word")
    IN  <<name>> \o [i \in 1..Len(ws) |-> ws[i].text]

(***************************************************************************)
(* The expander when memory runs out.  A pointer is the null pointer or an *)
(* owned string.                                                           *)
(***************************************************************************)
NullPtr == [null |-> TRUE, s |-> <<>>]
Str(s)  == [null |-> FALSE, s |-> s]

\* empty_heap_string: malloc(1), and the null pointer when that fails
empty_heap_string(mallocOk) == IF mallocOk THEN Str(<<>>) ELSE NullPtr

\* expand_one_arg with its allocations: alloc says that the allocations for
\* the value (slice_text, strdup, the growable buffer) succeeded, spare that
\* the one made after a failure (malloc(1) of empty_heap_string, strdup("")
\* in the default case) did
expand_one_arg_oom(node, ls, E, pid, sub, m) ==
    IF m.alloc
    THEN [ret |-> Str(expand_one_arg(node, ls, E, pid, sub)), err |-> "EXPAND_OK"]
    ELSE [ret |-> empty_heap_string(m.spare), err |-> "EXPAND_OOM"]

\* expand_to_argv with its allocations: callocOk for the array, mem[1] for
\* argv[0], mem[i + 1] for the i-th argument.  calls are the results of the
\* calls of expand_one_arg made, live the blocks allocated and not freed
\* when it returns
expand_to_argv_oom(name, children, ls, E, pid, sub, callocOk, mem) ==
    LET as    == <<Node("word", name, "", <<>>)>> \o ArgChildren(children)
        r     == [i \in 1..Len(as) |-> expand_one_arg_oom(as[i], ls, E, pid, sub, mem[i])]
        nulls == {i \in 1..Len(as) : r[i].ret.null}
        f     == CHOOSE i \in nulls : \A j \in nulls : i <= j
    IN  IF ~callocOk
        THEN [null |-> TRUE, argv |-> <<>>, err |-> "EXPAND_OOM", calls |-> <<>>,
              live |-> 0]
        ELSE IF nulls # {}
        THEN [null |-> TRUE, argv |-> <<>>, err |-> "EXPAND_OOM",
              calls |-> SubSeq(r, 1, f), live |-> (1 + (f - 1)) - ((f - 1) + 1)]
        ELSE [null |-> FALSE, argv |-> [i \in 1..Len(as) |-> r[i].ret.s],
              err |-> IF \E i \in 2..Len(as) : r[i].err # "EXPAND_OK"
                      THEN "EXPAND_OOM" ELSE "EXPAND_OK",
              calls |-> r, live |-> 1 + Len(as)]

\* for (i = 1; i < argc; i++) { if (i > 1) fputc(' '); fputs(argv[i]); }
RECURSIVE EchoArgs(_, _)
EchoArgs(argv, i) ==
    IF i > Len(argv) THEN <<>>
    ELSE (IF i > 2 THEN <<" ">> ELSE <<>>) \o argv[i] \o EchoArgs(argv, i + 1)

\* the bytes the builtin echo writes to standard output
builtin_echo(argv) == EchoArgs(argv, 2) \o <<"\n">>

(***************************************************************************)
(* Operator discovery between two operands of a list.                      *)
(***************************************************************************)
OpTexts == [and |-> <<"&", "&">>, or |-> <<"|", "|">>, semi |-> <<";">>, bg |-> <<"&">>]
OpNames == {"and", "or", "semi", "bg"}

Blanks(k) == [i \in 1..k |-> " "]

\* the source bytes between the end of operand i and the start of operand i+1
Segment(op, lead, trail) == Blanks(lead) \o OpTexts[op] \o Blanks(trail)

\* eval_node_status, case sym_list: the while (p < pend) scan
RECURSIVE ScanList(_, _)
ScanList(seg, p) ==
    IF p > Len(seg) THEN "none"
    ELSE IF p + 1 <= Len(seg) /\ seg[p] = "&" /\ seg[p+1] = "&" THEN "and"
    ELSE IF p + 1 <= Len(seg) /\ seg[p] = "|" /\ seg[p+1] = "|" THEN "or"
    ELSE IF seg[p] = ";" THEN "semi"
    ELSE IF seg[p] = "&" THEN "bg"
    ELSE ScanList(seg, p + 1)

\* eval_andor: the while (p + 1 < pend) scan, only && and ||
RECURSIVE ScanAndOr(_, _)
ScanAndOr(seg, p) ==
    IF p + 1 > Len(seg) THEN "none"
    ELSE IF seg[p] = "&" /\ seg[p+1] = "&" THEN "and"
    ELSE IF seg[p] = "|" /\ seg[p+1] = "|" THEN "or"
    ELSE ScanAndOr(seg, p + 1)

Mut_run_right(found, status) ==
    IF found = "and" THEN status = 0
    ELSE IF found = "or" THEN status = 0
    ELSE TRUE

\* int run_right = 1; if (is_and) ... else if (is_or) ...
run_right(found, status) ==
    IF found = "and" THEN status = 0
    ELSE IF found = "or" THEN status # 0
    ELSE TRUE


(***************************************************************************)
(* File descriptors and pipes.                                             *)
(***************************************************************************)
\* open() and pipe() return the lowest descriptor that is not open; 0, 1 and 2
\* are the shell's standard streams
LowestFree(F) == CHOOSE n \in 3..(3 + Cardinality(F)) :
                     n \notin F /\ \A m \in 3..(n - 1) : m \in F

\* pipe(pipes[i]) for i = 0 .. k-1, starting from the open set F
RECURSIVE MakePipes(_, _)
MakePipes(F, k) ==
    IF k = 0 THEN <<>>
    ELSE LET r == LowestFree(F)
             w == LowestFree(F \cup {r})
         IN  <<  <<r, w>>  >> \o MakePipes(F \cup {r, w}, k - 1)

PipeFds(ps, upto) == UNION {{ps[k][1], ps[k][2]} : k \in 1..upto}

Mut_ClosePipes(F, ps, upto) == F \ PipeFds(ps, IF upto > 0 THEN upto - 1 ELSE 0)

\* for (k = 0; k < upto; k++) { close(pipes[k][0]); close(pipes[k][1]); }
ClosePipes(F, ps, upto) == F \ PipeFds(ps, upto)

(***************************************************************************)
(* State.                                                                  *)
(***************************************************************************)
VARIABLES
    pc,           \* where the shell process is
    last_status,  \* static int last_status
    sigblocked,   \* SIGCHLD is in the shell's signal mask
    sigpending,   \* a SIGCHLD was generated while blocked
    interactive,  \* isatty(0) && av[optind] == NULL
    shouldexit,   \* main: bool shouldexit
    linesLeft,    \* lines the terminal still delivers before end of input
    stmtsLeft,    \* run_program: named children of the program not yet executed
    frames,       \* activations of the list / and-or loop, innermost last
    cur,          \* locals of the running handler: runner, n, i, in_fd, out_fd
    pipes,        \* int (*pipes)[2]
    pids,         \* pid_t *pids (or the single pid of a simple command)
    st,           \* int st of the wait loop
    pfds,         \* descriptors open in the shell, beyond 0, 1, 2
    procs,        \* children: state, pipe ends held, stage
    lastExp,      \* the last expansion of "$?" or "$$" handed to a command
    env,          \* the environment of the shell process
    exitcode,     \* the status main returned
    stdio,        \* FILE *stdout of the shell, and what has reached fd 1
    g             \* history: what the last step observed

vars == <<pc, last_status, sigblocked, sigpending, interactive, shouldexit,
          linesLeft, stmtsLeft, frames, cur, pipes, pids, st, pfds, procs,
          lastExp, env, exitcode, stdio, g>>

Pids == 1..MaxStages

NoRec  == [kind |-> "none", val |-> 0, core |-> FALSE]
NoProc == [state |-> "none", holds |-> {}, stage |-> 0, noexec |-> FALSE,
           noredir |-> FALSE, site |-> "none", mask |-> FALSE, buf |-> <<>>,
           out1 |-> FALSE]

(***************************************************************************)
(* Standard output.  buf is what stdio holds back in the FILE stdout of    *)
(* the shell, out what has been written to fd 1 by the shell or by a child *)
(* that has fd 1 of the shell; each write is a record with its number in   *)
(* the order of production.  on: the specification follows the output.     *)
(***************************************************************************)
NoStdio == [on |-> FALSE, tty |-> FALSE, buf |-> <<>>, out |-> <<>>, n |-> 0]

\* the builtin echo of handle_command: fputs / fputc to stdout, no fflush.
\* On a terminal stdout is line buffered and the final "\n" writes the
\* buffer out; otherwise it is fully buffered, and what a script of this size
\* echoes stays below the size of the buffer
EchoWrites(S) ==
    LET e == [by |-> "echo", seq |-> S.n + 1]
    IN  IF S.tty THEN [S EXCEPT !.out = @ \o S.buf \o <<e>>, !.buf = <<>>, !.n = @ + 1]
        ELSE [S EXCEPT !.buf = Append(@, e), !.n = @ + 1]

\* return from main: exit flushes stdout
AtExit(S) == [S EXCEPT !.out = @ \o S.buf, !.buf = <<>>]
NoProcs == [p \in Pids |-> NoProc]
NoCur  == [runner |-> "none", name |-> "none", n |-> 0, i |-> 0, in_fd |-> -1,
           out_fd |-> -1, redir |-> FALSE, failI |-> 0, args |-> <<>>, outp |-> <<>>]

Live(p)    == procs[p].state = "running"
Zombie(p)  == procs[p].state = "zombie"

\* the exit status a terminated command has by definition
Expected(rec) == IF rec.kind = "exit" THEN rec.val ELSE 128 + rec.val

\* history snapshots; each is written by the step it describes and cleared by
\* the next dispatch
NoJ    == [op |-> "none", status |-> 0, ran |-> FALSE]
NoWait == [who |-> "none", ok |-> FALSE, rec |-> NoRec, noexec |-> FALSE]
NoRun  == [runner |-> "none", n |-> 0, before |-> {}, after |-> {}, fail |-> "none",
           forkFails |-> 0, forkedAfterFail |-> FALSE, lastFirst |-> FALSE, done |-> FALSE,
           firstRec |-> NoRec, lastRec |-> NoRec, allForked |-> FALSE,
           unreaped |-> FALSE, redir |-> FALSE, rv |-> 0, ls |-> 0, wired |-> <<>>]
NoList == [done |-> FALSE, final |-> 0, lastEval |-> 0, ops |-> <<>>, sts |-> <<>>]
\* rd: a redirected statement had a target open() refused (any), the direction
\* of the first such target, and the diagnostic written to standard error
NoRd   == [any |-> FALSE, first |-> "none", diag |-> "none", rs |-> <<>>,
           in_k |-> 0, out_k |-> 0, reclosed |-> FALSE, made |-> {}]
\* io: where standard input and output of the child of run_command_with_io
\* point when its command runs (ran): at what the shell itself has
\* ("inherited"), at a file of the statement or at a file of the command;
\* stmtIn .. cmdOut: the statement / the command redirects that stream
NoIo   == [done |-> FALSE, ran |-> FALSE, stmtIn |-> FALSE, stmtOut |-> FALSE,
           cmdIn |-> FALSE, cmdOut |-> FALSE, in |-> "none", out |-> "none"]
\* loop: the while statement just dispatched: the command that is its
\* condition, and how many times its body was run
NoLoop == [done |-> FALSE, cond |-> "none", ran |-> 0]
\* asg: the variable assignment just executed, its dispatch site, and the
\* value the word expander gives its right-hand side
NoAsg  == [done |-> FALSE, ctx |-> "none", name |-> "", valn |-> NullNode, word |-> <<>>]
\* cmd: the command just run by handle_command: its children, the outcome of
\* its command substitution, its argv, and what the builtin echo wrote
\* mem: the allocations of the last expand_to_argv and what it returned
NoMem  == [done |-> FALSE, calloc |-> TRUE, mem |-> <<>>, null |-> FALSE,
           err |-> "EXPAND_OK", calls |-> <<>>, live |-> 0]
NoCmd  == [done |-> FALSE, name |-> "none", children |-> <<>>, sub |-> NoSub,
           argv |-> <<>>, out |-> <<>>]

\* prev: the exit status the last completed statement has by the rules of the
\*       shell language (-1: none defined); eval: the status the evaluator
\*       obtained from the last evaluated operand; atExp: prev at the moment
\*       "$?" was last expanded; atPid: the statement expanded "$$"; trace:
\*       lists keep their operators and operand statuses, assignments and
\*       commands their words, for the history
ClearSnap(h) == [h EXCEPT !.j = NoJ, !.wait = NoWait, !.run = NoRun, !.list = NoList,
                          !.rd = NoRd, !.atPid = FALSE, !.asg = NoAsg, !.cmd = NoCmd,
                          !.io = NoIo, !.loop = NoLoop, !.mem = NoMem]

InitAll(trace, Envs, Stdios) ==
    /\ pc = "read"
    /\ stdio \in Stdios
    /\ last_status = 0
    /\ sigblocked = FALSE
    /\ sigpending = FALSE
    /\ interactive \in BOOLEAN
    /\ shouldexit = FALSE
    /\ linesLeft = MaxLines
    /\ stmtsLeft = 0
    /\ frames = <<>>
    /\ cur = NoCur
    /\ pipes = <<>>
    /\ pids = <<>>
    /\ st = 0
    /\ pfds = {}
    /\ procs = NoProcs
    /\ lastExp = <<>>
    /\ env \in Envs
    /\ exitcode = -1
    /\ g = [prev |-> 0, eval |-> 0, atExp |-> -1, atPid |-> FALSE, trace |-> trace,
            j |-> NoJ,
            wait |-> NoWait, run |-> NoRun, list |-> NoList, rd |-> NoRd,
            asg |-> NoAsg, cmd |-> NoCmd, io |-> NoIo, loop |-> NoLoop, mem |-> NoMem]

InitOf(trace, Envs) == InitAll(trace, Envs, {NoStdio})

\* the shell started with neither A nor B in its environment
InitWith(trace) == InitOf(trace, {EmptyEnv})

Init == InitWith(FALSE)

(***************************************************************************)
(* main: the read/eval loop, execute_script, run_program.                  *)
(***************************************************************************)
\* signal_block / signal_unblock of the signal support library: the mask bit
\* of the signal after the call
signal_block(b)   == TRUE
signal_unblock(b) == FALSE

\* execute_script: signal_block(SIGCHLD); run_program(program);
mask_before_run(b) == signal_block(b)

Mut_mask_after_run(b) == b

\* execute_script: run_program(program); signal_unblock(SIGCHLD);
mask_after_run(b) == signal_unblock(b)

\* sigchld_handler: while (waitpid(-1, &status, WUNTRACED|WNOHANG) > 0)
sigchld_handler(ps) ==
    [p \in Pids |-> IF ps[p].state = "zombie" THEN NoProc ELSE ps[p]]

\* main: return EXIT_SUCCESS
EXIT_STATUS(ls) == 0

\* one iteration of for (;;) up to and including the entry of execute_script
main_read ==
    /\ pc = "read"
    /\ UNCHANGED <<last_status, sigpending, interactive, env, frames, cur, pipes, pids,
                   st, pfds, procs, lastExp>>
    /\ g' = ClearSnap(g)
    /\ IF shouldexit
       THEN \* break; ...; return
            /\ pc' = "exit"
            /\ exitcode' = EXIT_STATUS(last_status)
            /\ UNCHANGED <<sigblocked, shouldexit, linesLeft, stmtsLeft>>
       ELSE IF sigblocked
       THEN \* assert(!signal_is_blocked(SIGCHLD)) fails
            /\ pc' = "abort"
            /\ UNCHANGED <<sigblocked, shouldexit, linesLeft, stmtsLeft, exitcode>>
       ELSE IF interactive
       THEN \/ \* readline returned NULL: break
               /\ pc' = "exit"
               /\ exitcode' = EXIT_STATUS(last_status)
               /\ UNCHANGED <<sigblocked, shouldexit, linesLeft, stmtsLeft>>
            \/ \* a line: execute_script, signal_block, run_program
               /\ linesLeft > 0
               /\ linesLeft' = linesLeft - 1
               /\ \E k \in 0..MaxStmts : stmtsLeft' = k
               /\ sigblocked' = mask_before_run(sigblocked)
               /\ pc' = "prog"
               /\ UNCHANGED <<shouldexit, exitcode>>
       ELSE \* read_script_from_fd; shouldexit = true; execute_script
            /\ shouldexit' = TRUE
            /\ \E k \in 0..MaxStmts : stmtsLeft' = k
            /\ sigblocked' = mask_before_run(sigblocked)
            /\ pc' = "prog"
            /\ UNCHANGED <<linesLeft, exitcode>>
    /\ stdio' = IF pc' = "exit" THEN AtExit(stdio) ELSE stdio

\* run_program's loop is over: signal_unblock, ts_tree_delete, back to main
execute_script_end ==
    /\ pc = "prog"
    /\ stmtsLeft = 0
    /\ sigblocked' = mask_after_run(sigblocked)
    /\ procs' = IF sigpending /\ ~sigblocked' THEN sigchld_handler(procs) ELSE procs
    /\ sigpending' = IF sigblocked' THEN sigpending ELSE FALSE
    /\ pc' = "read"
    /\ g' = ClearSnap(g)
    /\ UNCHANGED <<last_status, interactive, env, shouldexit, linesLeft, stmtsLeft, frames,
                   cur, pipes, pids, st, pfds, lastExp, exitcode>>
    /\ UNCHANGED stdio

(***************************************************************************)
(* Dispatch and return.  execute_node is the dispatch of run_program       *)
(* (context "top"); eval_node_status is the dispatch of a list operand     *)
(* (context "list").                                                       *)
(***************************************************************************)
AtDispatch == (pc = "prog" /\ stmtsLeft > 0) \/ pc = "operand"
Ctx        == IF pc = "prog" THEN "top" ELSE "list"
Consume    == stmtsLeft' = IF pc = "prog" THEN stmtsLeft - 1 ELSE stmtsLeft

\* where a handler returns to: run_program's loop, or the list loop that
\* called eval_node_status and stores the value it returned in `status`
Mut_RetPc(fr) ==
    IF fr # <<>> THEN "junction" ELSE IF last_status' # 0 THEN "exit" ELSE "prog"

RetPc(fr) == IF fr = <<>> THEN "prog" ELSE "junction"
RetFrames(fr, ls) ==
    IF fr = <<>> THEN fr
    ELSE [fr EXCEPT ![Len(fr)].status = ls,
                    ![Len(fr)].sts = IF g.trace THEN Append(@, ls) ELSE @]

\* waitpid(pid, &st, 0): the pids it can return now; -1 stands for the error
\* return (ECHILD); the empty set means the call blocks.  pid -1 and pid 0 wait
\* for any child (the shell never changes a child's process group)
WaitRets(pid) ==
    IF pid > 0
    THEN IF Zombie(pid) THEN {pid} ELSE IF Live(pid) THEN {} ELSE {-1}
    ELSE LET Z == {p \in Pids : Zombie(p)}
         IN  IF Z # {} THEN Z
             ELSE IF \E p \in Pids : Live(p) THEN {} ELSE {-1}

\* the termination records waitpid can report for what it returned; how a
\* child ended is visible to the shell only here
WaitRecs(ret) == IF ret <= 0 THEN {NoRec}
                 ELSE IF procs[ret].noredir THEN {RedirFailRec}
                 ELSE IF procs[ret].noexec THEN {ExecFailRec}
                 ELSE TermRecs

Reap(ps, ret) == IF ret > 0 THEN [ps EXCEPT ![ret] = NoProc] ELSE ps

\* site: the fork that made the child ("cmd" handle_command, "subst"
\* capture_command_subst, "rc" run_command_with_io, "hp", "rpw", "piping" the
\* pipeline runners); mask: SIGCHLD is blocked in the child, which has the
\* signal mask its parent had at the fork
NewChild(site, stage, holds) ==
    [state |-> "running", holds |-> holds, stage |-> stage, noexec |-> FALSE,
     noredir |-> FALSE, site |-> site, mask |-> sigblocked, buf |-> stdio.buf,
     out1 |-> stdio.on]

\* the child of a fork whose execvp / execv will fail (nx): no such program,
\* or not executable
ExecChild(site, stage, holds, nx) ==
    [NewChild(site, stage, holds) EXCEPT !.noexec = nx]

Mut_ChildPath(site, noredir, noexec) ==
    IF site \in {"rc", "rpw"} /\ noredir THEN "_exit"
    ELSE IF noexec THEN (IF site = "cmd" THEN "return" ELSE "_exit")
    ELSE "exec"

\* fflush(NULL) in the child: exec_command_in_child before _exit(1) after a
\* failed redirection and before _exit(127) after a failed exec
ChildFlushes(site, noredir, noexec) ==
    site \in {"rc", "rpw"} /\ (noredir \/ noexec)

\* how the code after fork() == 0 ends.  handle_command, handle_pipeline and
\* capture_command_subst: exec, and _exit(127) behind it.  run_command_with_io
\* and run_pipeline_with_io: exec_command_in_child, which ends in _exit(1)
\* when a redirection fails, in _exit(127) without an argv or when the exec
\* fails, in _exit(0) after the builtin echo, and has _exit(127) behind it.
\* piping.c: the callback, and _exit(127) behind it.  "return" would be a
\* child that leaves the branch and goes on with the code of the shell
ChildPath(site, noredir, noexec) ==
    IF site \in {"rc", "rpw"} /\ noredir THEN "_exit"
    ELSE IF noexec THEN "_exit"
    ELSE "exec"

\* execute_node: case sym_comment
exec_comment ==
    /\ pc = "prog" /\ stmtsLeft > 0
    /\ stmtsLeft' = stmtsLeft - 1
    /\ lastExp' = <<>>
    /\ g' = ClearSnap([g EXCEPT !.atExp = -1])
    /\ UNCHANGED <<pc, last_status, sigblocked, sigpending, interactive, env, shouldexit,
                   linesLeft, frames, cur, pipes, pids, st, pfds, procs, exitcode>>
    /\ UNCHANGED stdio

\* handle_variable_assignment: the text of the value node, or "" without one,
\* goes into the environment as it stands
handle_variable_assignment(E, name, valn) ==
    setenv(E, name, IF valn.sym = "null" THEN <<>> ELSE valn.text, TRUE)

\* execute_node: case sym_variable_assignment -> handle_variable_assignment;
\* eval_node_status has no such case: default, "unimplemented node"
assignment_of(Names, Values) ==
    /\ AtDispatch /\ Consume
    /\ \E name \in Names, valn \in Values :
         /\ env' = IF Ctx = "top" THEN handle_variable_assignment(env, name, valn)
                   ELSE env
         /\ last_status' = IF Ctx = "top" THEN 0 ELSE 1
         /\ g' = [ClearSnap([g EXCEPT !.atExp = -1, !.prev = 0, !.eval = last_status'])
                   EXCEPT !.asg = IF g.trace
                                  THEN [done |-> TRUE, ctx |-> Ctx, name |-> name,
                                        valn |-> valn,
                                        word |-> expand_one_arg(valn, last_status, env,
                                                                getpid(0), NoSub)]
                                  ELSE NoAsg]
    /\ pc' = RetPc(frames)
    /\ frames' = RetFrames(frames, last_status')
    /\ lastExp' = <<>>
    /\ UNCHANGED <<sigblocked, sigpending, interactive, shouldexit, linesLeft, cur,
                   pipes, pids, st, pfds, procs, exitcode>>
    /\ UNCHANGED stdio

\* the assignment A=v
exec_variable_assignment == assignment_of({"A"}, {Word(<<"v">>)})

\* assignments to A and B of: nothing, a word, a quoted string, ${B}, $B
ValueNodes == {NullNode, Word(<<"v">>), Word(<<"w">>), RawString(<<"v">>),
               DqString(<<Content(<<"v">>)>>), BraceExp("B"), SimpleExp("B")}
assign_words == assignment_of(VarNames, ValueNodes)

\* a node kind no case handles and that has no operator field:
\* execute_node prints "Unimplemented node"; eval_node_status also sets 1
exec_unimplemented ==
    /\ AtDispatch /\ Consume
    /\ last_status' = IF Ctx = "top" THEN last_status ELSE 1
    /\ pc' = RetPc(frames)
    /\ frames' = RetFrames(frames, last_status')
    /\ lastExp' = <<>>
    /\ g' = ClearSnap([g EXCEPT !.atExp = -1, !.prev = -1, !.eval = last_status'])
    /\ UNCHANGED <<sigblocked, sigpending, interactive, env, shouldexit, linesLeft, cur,
                   pipes, pids, st, pfds, procs, exitcode>>
    /\ UNCHANGED stdio

\* a while_statement "while cond; do ...; done": execute_node and
\* eval_node_status have no case for it and it has no operator field, so it
\* takes the default branch; neither its condition nor its body is evaluated
exec_while ==
    /\ AtDispatch /\ Consume
    /\ last_status' = IF Ctx = "top" THEN last_status ELSE 1
    /\ pc' = RetPc(frames)
    /\ frames' = RetFrames(frames, last_status')
    /\ lastExp' = <<>>
    /\ \E cond \in {"true", "false"} :
         g' = [ClearSnap([g EXCEPT !.atExp = -1, !.prev = -1, !.eval = last_status'])
                 EXCEPT !.loop = [done |-> TRUE, cond |-> cond, ran |-> 0]]
    /\ UNCHANGED <<sigblocked, sigpending, interactive, env, shouldexit, linesLeft, cur,
                   pipes, pids, st, pfds, procs, exitcode>>
    /\ UNCHANGED stdio

(***************************************************************************)
(* Lists: eval_node_status case sym_list, and eval_andor.                  *)
(***************************************************************************)
Frame(kind, m) == [kind |-> kind, status |-> 0, remaining |-> m - 1,
                   first |-> TRUE, ops |-> <<>>, sts |-> <<>>]

\* entry of the loop: m named children, the first one is evaluated next.  The
\* grammar nests lists to the left: a list is a statement of the program or
\* the first child of a list
list_of(depth, operands) ==
    /\ AtDispatch /\ Consume
    /\ Len(frames) < depth
    /\ frames # <<>> => frames[Len(frames)].first
    /\ \E kind \in {"list", "andor"}, m \in 2..operands :
          frames' = Append(frames, Frame(kind, m))
    /\ pc' = "operand"
    /\ lastExp' = <<>>
    /\ g' = ClearSnap([g EXCEPT !.atExp = -1])
    /\ UNCHANGED <<last_status, sigblocked, sigpending, interactive, env, shouldexit,
                   linesLeft, cur, pipes, pids, st, pfds, procs, exitcode>>
    /\ UNCHANGED stdio

\* lists of up to MaxOperands operands, nested up to MaxDepth deep
exec_list == list_of(MaxDepth, MaxOperands)

\* lists of two operands that are not lists themselves
exec_flat_list == list_of(FlatDepth, FlatOperands)

Top == frames[Len(frames)]

FoundOperator(kind, seg) ==
    IF kind = "list" THEN ScanList(seg, 1) ELSE ScanAndOr(seg, 1)

Mut_AfterJunction(fr, run) ==
    [fr EXCEPT !.remaining = @ - 1, !.first = FALSE,
               !.status = IF run THEN @ ELSE 0]

\* the end of one iteration: a skipped operand leaves `status` as it is
AfterJunction(fr, run) == [fr EXCEPT !.remaining = @ - 1, !.first = FALSE]

\* one iteration of for (i = 1; i < m; i++): find the operator, decide
junction ==
    /\ pc = "junction"
    /\ Top.remaining > 0
    /\ \E op \in (IF Top.kind = "list" THEN OpNames ELSE {"and", "or"}),
          lead \in 0..MaxWs, trail \in 0..MaxWs :
          LET found == FoundOperator(Top.kind, Segment(op, lead, trail))
              rr    == run_right(found, Top.status)
              fr    == AfterJunction(Top, rr)
          IN  /\ frames' = [frames EXCEPT ![Len(frames)] =
                    IF g.trace
                    THEN [fr EXCEPT !.ops = Append(@, op),
                                    !.sts = IF rr THEN @ ELSE Append(@, -1)]
                    ELSE fr]
              /\ pc' = IF rr THEN "operand" ELSE "junction"
              /\ g' = [ClearSnap(g) EXCEPT
                         !.j = [op |-> op, status |-> g.eval, ran |-> rr]]
    /\ UNCHANGED <<last_status, sigblocked, sigpending, interactive, env, shouldexit,
                   linesLeft, stmtsLeft, cur, pipes, pids, st, pfds, procs,
                   lastExp, exitcode>>
    /\ UNCHANGED stdio

\* after the loop: last_status = status; return last_status;
list_end ==
    /\ pc = "junction"
    /\ Top.remaining = 0
    /\ last_status' = Top.status
    /\ LET rest == SubSeq(frames, 1, Len(frames) - 1)
       IN  /\ frames' = RetFrames(rest, last_status')
           /\ pc' = RetPc(rest)
    /\ g' = [ClearSnap(g) EXCEPT
               !.eval = last_status',
               !.list = [done |-> TRUE, final |-> last_status', lastEval |-> g.eval,
                         ops |-> Top.ops, sts |-> Top.sts]]
    /\ UNCHANGED <<sigblocked, sigpending, interactive, env, shouldexit, linesLeft,
                   stmtsLeft, cur, pipes, pids, st, pfds, procs, lastExp, exitcode>>
    /\ UNCHANGED stdio

(***************************************************************************)
(* Simple commands: handle_command.                                        *)
(***************************************************************************)
\* the expansion of the special parameter a command has as its argument, in
\* the process self that expands it
ArgExp(arg, ls, self) ==
    IF arg = "$?" THEN expand_simple(DollarQuestion, ls, EmptyEnv, getpid(self))
    ELSE IF arg = "$$" THEN expand_simple(DollarDollar, ls, EmptyEnv, getpid(self))
    ELSE <<>>

IsSubst(n) == n.sym = "command_substitution"
HasSubst(children) ==
    \E k \in 1..Len(children) :
        \/ IsSubst(children[k])
        \/ \E m \in 1..Len(children[k].parts) : IsSubst(children[k].parts[m])

SpecialArgs == {<<DollarQuestion>>, <<DollarDollar>>}

\* the tail of handle_command once argv is built (argvOk) or expand_to_argv
\* has returned NULL: the builtin echo, or fork and on to the wait
RunWith(argv, mem, name, children, sub, argvOk, forkOk, nx) ==
    LET snap == IF g.trace /\ argvOk
                THEN [done |-> TRUE, name |-> name, children |-> children, sub |-> sub,
                      argv |-> argv,
                      out |-> IF name = "echo" THEN builtin_echo(argv) ELSE <<>>]
                ELSE NoCmd
    IN
    /\ lastExp' = IF argvOk /\ children \in SpecialArgs THEN argv[2] ELSE <<>>
    /\ IF ~argvOk \/ name = "echo"
       THEN /\ forkOk /\ ~nx
            /\ last_status' = IF argvOk THEN 0 ELSE 1
            /\ pc' = RetPc(frames)
            /\ frames' = RetFrames(frames, last_status')
            /\ g' = [ClearSnap([g EXCEPT
                       !.atExp = IF argvOk /\ children = <<DollarQuestion>>
                                 THEN g.prev ELSE -1,
                       !.prev = last_status', !.eval = last_status'])
                     EXCEPT !.atPid = argvOk /\ children = <<DollarDollar>>,
                            !.cmd = snap, !.mem = mem]
            /\ pids' = <<>>
            /\ cur' = NoCur
            /\ stdio' = IF stdio.on /\ argvOk THEN EchoWrites(stdio) ELSE stdio
            /\ UNCHANGED st
       ELSE /\ (nx => forkOk)
            /\ pids' = IF forkOk THEN <<1>> ELSE <<-1>>
            /\ st' = 0
            /\ cur' = [NoCur EXCEPT !.runner = "cmd"]
            /\ pc' = "cmd_wait"
            /\ g' = [ClearSnap([g EXCEPT
                       !.atExp = IF children = <<DollarQuestion>> THEN g.prev ELSE -1])
                     EXCEPT !.atPid = (children = <<DollarDollar>>), !.cmd = snap,
                            !.mem = mem]
            /\ UNCHANGED <<last_status, frames, stdio>>

RunArgv(name, children, sub, argvOk, forkOk, nx) ==
    RunWith(expand_to_argv(name, children, last_status, env, getpid(0), sub), NoMem,
            name, children, sub, argvOk, forkOk, nx)

\* handle_command: expand_to_argv, then the builtin echo or fork.  children
\* are the named children of the command after its name.  For a command
\* substitution capture_command_subst forks /bin/sh, reads what it writes
\* (outp) and waits for it; when its pipe() or fork() fails (~substOk) the
\* word is the empty string and expand_to_argv goes on
command_of(Names, Cmds, Outs) ==
    /\ AtDispatch /\ Consume
    /\ \E name \in Names, children \in Cmds :
       \E argvOk \in (IF name = "echo" /\ children = <<>> THEN BOOLEAN ELSE {TRUE}),
          substOk \in (IF HasSubst(children) THEN BOOLEAN ELSE {TRUE}) :
       \E outp \in (IF argvOk /\ HasSubst(children) /\ substOk THEN Outs ELSE {<<>>}),
          forkOk \in (IF name = "ext" /\ ~(HasSubst(children) /\ substOk)
                      THEN BOOLEAN ELSE {TRUE}) :
       \E nx \in (IF name = "ext" /\ forkOk /\ ~(HasSubst(children) /\ substOk)
                  THEN BOOLEAN ELSE {FALSE}) :
         /\ IF argvOk /\ HasSubst(children) /\ substOk
            THEN /\ procs' = [procs EXCEPT ![1] = [NewChild("subst", 0, {}) EXCEPT !.out1 = FALSE]]
                 /\ pids' = <<1>>
                 /\ cur' = [NoCur EXCEPT !.runner = "subst", !.name = name,
                                         !.args = children, !.outp = outp]
                 /\ pc' = "subst_wait"
                 /\ lastExp' = <<>>
                 /\ g' = ClearSnap([g EXCEPT !.atExp = -1])
                 /\ UNCHANGED <<last_status, frames, st, stdio>>
            ELSE /\ RunArgv(name, children, [ok |-> substOk, outp |-> <<>>],
                            argvOk, forkOk, nx)
                 /\ procs' = IF name = "ext" /\ argvOk /\ forkOk
                              THEN [procs EXCEPT ![1] = ExecChild("cmd", 0, {}, nx)]
                              ELSE procs
    /\ UNCHANGED <<sigblocked, sigpending, interactive, env, shouldexit, linesLeft,
                   pipes, pfds, exitcode>>

\* commands with no argument or with one: "$?", "$$" or "$(c)", whose child
\* writes nothing
SpecCmds == {<<>>, <<DollarQuestion>>, <<DollarDollar>>, <<CmdSubst>>}
handle_command == command_of({"echo", "ext"}, SpecCmds, {<<>>})

\* the builtin echo with up to MaxArgs children: words, quoted strings, the
\* empty string "", expansions of A and B, ${B:-x}, a redirection, and at most one
\* command substitution, whose child writes up to MaxOut bytes
ArgNodes == {Word(<<"x">>), RawString(<<"x">>), DqString(<<>>),
             DqString(<<Content(<<"x", " ">>), SimpleExp("A")>>),
             SimpleExp("A"), BraceExp("A"), SimpleExp("B"),
             BraceDefault("B", <<"x">>), CmdSubst, FileRedirect}
WordCmds == {c \in UNION {[1..k -> ArgNodes] : k \in 0..MaxArgs} :
                Cardinality({k \in 1..Len(c) : IsSubst(c[k])}) <= 1}
Outputs  == UNION {[1..k -> {"x", "\n"}] : k \in 0..MaxOut}
echo_words == command_of({"echo"}, WordCmds, Outputs)

\* capture_command_subst: (void)waitpid(pid, NULL, 0) once the output is
\* read; then handle_command goes on with the builtin echo or with fork
capture_command_subst_wait ==
    /\ pc = "subst_wait"
    /\ \E ret \in WaitRets(pids[1]),
          forkOk \in (IF cur.name = "ext" THEN BOOLEAN ELSE {TRUE}) :
       \E nx \in (IF cur.name = "ext" /\ forkOk THEN BOOLEAN ELSE {FALSE}) :
         /\ RunArgv(cur.name, cur.args, [ok |-> TRUE, outp |-> cur.outp],
                    TRUE, forkOk, nx)
         /\ procs' = IF cur.name = "ext" /\ forkOk
                      THEN [Reap(procs, ret) EXCEPT ![1] = ExecChild("cmd", 0, {}, nx)]
                      ELSE Reap(procs, ret)
    /\ UNCHANGED <<sigblocked, sigpending, interactive, env, shouldexit, linesLeft,
                   stmtsLeft, pipes, pfds, exitcode>>

\* (void)waitpid(pid, &st, 0); then the WIFEXITED / WIFSIGNALED chain
handle_command_wait ==
    /\ pc = "cmd_wait"
    /\ \E ret \in WaitRets(pids[1]) : \E rec \in WaitRecs(ret) :
         LET stN == IF ret > 0 THEN RawStatus(rec) ELSE st
         IN  /\ procs' = Reap(procs, ret)
             /\ last_status' = status_to_exitcode(stN)
             /\ g' = [g EXCEPT
                        !.wait = [who |-> "cmd", ok |-> ret > 0 /\ ret = pids[1],
                                  rec |-> rec,
                                  noexec |-> ret > 0 /\ procs[ret].noexec],
                        !.prev = IF ret > 0 /\ ret = pids[1] THEN Expected(rec) ELSE 1,
                        !.eval = last_status']
    /\ st' = 0
    /\ pids' = <<>>
    /\ pc' = RetPc(frames)
    /\ frames' = RetFrames(frames, last_status')
    /\ cur' = NoCur
    /\ UNCHANGED <<sigblocked, sigpending, interactive, env, shouldexit, linesLeft,
                   stmtsLeft, pipes, pfds, lastExp, exitcode>>
    /\ UNCHANGED stdio

(***************************************************************************)
(* Children.                                                               *)
(***************************************************************************)
\* pipe k (1-based) carries the output of stage k-1 to the input of stage k
WiredEnds(stage, n) ==
    (IF stage > 0 THEN {<<stage, "r">>} ELSE {})
       \cup (IF stage < n - 1 THEN {<<stage + 1, "w">>} ELSE {})

Mut_ChildCloses(held, stage, n) == held

\* the child's dup2 calls, then close of every pipes[j][0], pipes[j][1]:
\* what stays open are the two ends now installed as fd 0 and fd 1
ChildCloses(held, stage, n) == WiredEnds(stage, n)

\* the pipe ends the shell itself has open
ParentHolds == {e \in (1..Len(pipes)) \X {"r", "w"} :
                   pipes[e[1]][IF e[2] = "r" THEN 1 ELSE 2] \in pfds}

\* read() on the stage's standard input returns 0: no open descriptor refers
\* to the write end of its input pipe.  Stage 0 does not read from a pipe.
SeesEOF(p) ==
    \/ procs[p].stage = 0
    \/ /\ <<procs[p].stage, "w">> \notin ParentHolds
       /\ \A q \in Pids : Live(q) => <<procs[p].stage, "w">> \notin procs[q].holds

\* the child terminates: _exit, exit of the exec'ed program, or a fatal signal
child_exit(p) ==
    /\ procs[p].state = "running"
    /\ procs' = [procs EXCEPT ![p].state = "zombie", ![p].holds = {}, ![p].buf = <<>>]
    /\ sigpending' = TRUE
    /\ stdio' = IF ~procs[p].out1 THEN stdio
                ELSE LET c == procs[p]
                         flushed == IF ChildFlushes(c.site, c.noredir, c.noexec)
                                    THEN c.buf ELSE <<>>
                         wrote   == IF ChildPath(c.site, c.noredir, c.noexec) = "exec"
                                    THEN <<[by |-> "child", seq |-> stdio.n + 1]>>
                                    ELSE <<>>
                     IN  [stdio EXCEPT !.out = @ \o flushed \o wrote,
                                       !.n = @ + Len(wrote)]
    /\ g' = [g EXCEPT !.run.lastFirst =
                @ \/ (/\ cur.n > 1
                      /\ procs[p].stage = cur.n - 1
                      /\ \E q \in Pids : Live(q) /\ procs[q].stage = 0)]
    /\ UNCHANGED <<pc, last_status, sigblocked, interactive, env, shouldexit, linesLeft,
                   stmtsLeft, frames, cur, pipes, pids, st, pfds, lastExp, exitcode>>

\* a stage that terminates once its input is exhausted
child_exit_on_eof(p) == SeesEOF(p) /\ child_exit(p)

(***************************************************************************)
(* Pipelines: handle_pipeline ("hp"), run_pipeline_with_io ("rpw") of      *)
(* minibash.c and piping_run_pipeline_with_io ("piping") of piping.c.      *)
(***************************************************************************)
Stages == 2..MaxStages

\* close(in_fd); close(out_fd) at the end of handle_redirected_statement
CloseRedirs(F, c) == IF c.redir THEN F \ {c.in_fd, c.out_fd} ELSE F

\* what last_status is once the caller of the runner has returned:
\* handle_redirected_statement stores rc; eval_node_status and execute_node
\* keep what the runner left in last_status
AfterRunner(c, rc, ls) == IF c.redir THEN rc ELSE ls

\* what a child has as standard input or output: what the shell itself has
\* ("inherited"), the descriptor fd, or an end of pipe k (pipes[k - 1])
Inherited   == [kind |-> "inherited", k |-> 0, fd |-> -1]
GivenFd(fd) == [kind |-> "fd", k |-> 0, fd |-> fd]
PipeEnd(k)  == [kind |-> "pipe", k |-> k, fd |-> -1]

Mut_ChildStdin(i, n, in_fd) ==
    IF in_fd # -1 THEN GivenFd(in_fd) ELSE IF i = 0 THEN Inherited ELSE PipeEnd(i)

\* stdin of child i: if (i == 0) { if (pipe_in_fd != -1) dup2(pipe_in_fd, 0); }
\* else dup2(pipes[i-1][0], 0);
ChildStdin(i, n, in_fd) ==
    IF i = 0 THEN (IF in_fd # -1 THEN GivenFd(in_fd) ELSE Inherited)
    ELSE PipeEnd(i)

\* stdout of child i: if (i == n - 1) { if (pipe_out_fd != -1) dup2(pipe_out_fd, 1); }
\* else dup2(pipes[i][1], 1);
ChildStdout(i, n, out_fd) ==
    IF i = n - 1 THEN (IF out_fd # -1 THEN GivenFd(out_fd) ELSE Inherited)
    ELSE PipeEnd(i + 1)

Mut_TakesStatus(i, n) == i = 0

\* if (i == n - 1) st = cur;
TakesStatus(i, n) == i = n - 1

\* entry of a pipeline runner up to its fork loop.  F: descriptors open at the
\* call.  outcome: "words" (handle_pipeline cannot build a words-only argv),
\* "allocpipes" / "allocpids" (calloc fails), "pipe" (pipe() fails at index
\* failAt), "ok"
StartPipeline(runner, n, F, c) ==
    \E outcome \in {"ok", "allocpipes", "allocpids", "pipe"}
                     \cup (IF runner = "hp" THEN {"words"} ELSE {}),
       failAt \in 0..(n - 2) :
      LET made    == IF outcome \in {"words", "allocpipes"} THEN 0
                     ELSE IF outcome \in {"ok", "allocpids"} THEN n - 1
                     ELSE failAt
          ps      == MakePipes(F, made)
          opened  == F \cup PipeFds(ps, made)
          atRet   == ClosePipes(opened, ps, made)
          rc      == 1
      IN  /\ (outcome # "pipe" => failAt = 0)
          /\ lastExp' = <<>>
          /\ IF outcome = "ok"
             THEN /\ pipes' = ps
                  /\ pfds' = opened
                  /\ pids' = [k \in 1..n |-> 0]
                  /\ cur' = c
                  /\ pc' = "pl_fork"
                  /\ g' = [ClearSnap([g EXCEPT !.atExp = -1]) EXCEPT
                             !.run = [NoRun EXCEPT !.runner = runner, !.n = n,
                                        !.before = F, !.redir = c.redir]]
                  /\ UNCHANGED <<last_status, frames, st, procs>>
             ELSE /\ pfds' = CloseRedirs(atRet, c)
                  /\ last_status' = AfterRunner(c, rc, last_status)
                  /\ pc' = RetPc(frames)
                  /\ frames' = RetFrames(frames, last_status')
                  /\ g' = [ClearSnap([g EXCEPT !.atExp = -1]) EXCEPT
                             !.prev = IF outcome = "words" THEN -1 ELSE 1,
                             !.eval = last_status',
                             !.run = [NoRun EXCEPT !.runner = runner, !.n = n,
                                        !.before = F, !.after = atRet,
                                        !.fail = IF outcome \in {"allocpipes", "allocpids"}
                                                 THEN "alloc"
                                                 ELSE IF outcome = "words" THEN "words"
                                                 ELSE "pipe",
                                        !.done = TRUE, !.redir = c.redir,
                                        !.rv = IF runner = "hp" THEN 0 ELSE rc,
                                        !.ls = IF runner = "piping" THEN rc
                                               ELSE last_status']]
                  /\ UNCHANGED <<pipes, pids, procs, cur, st>>

\* one iteration of the fork loop.  A stage of run_pipeline_with_io expands
\* its words in the child (exec_command_in_child); handle_pipeline passes the
\* plain words only
pipeline_fork ==
    /\ pc = "pl_fork"
    /\ LET i == cur.i
           p == i + 1
       IN \E forkOk \in BOOLEAN, nx \in BOOLEAN, arg \in {"none", "$$"} :
          (nx => forkOk /\ i = cur.n - 1) /\
          (arg = "$$" => forkOk /\ ~nx /\ i = cur.n - 1 /\ cur.runner = "rpw") /\
          IF forkOk
          THEN /\ procs' = [procs EXCEPT
                    ![p] = [ExecChild(cur.runner, i, ChildCloses(ParentHolds, i, cur.n), nx)
                              EXCEPT !.out1 = @ /\ ChildStdout(i, cur.n, cur.out_fd)
                                                     = Inherited]]
               /\ pids' = [pids EXCEPT ![p] = p]
               /\ cur' = [cur EXCEPT !.i = i + 1]
               /\ pc' = IF i + 1 = cur.n THEN "pl_close" ELSE "pl_fork"
               /\ lastExp' = IF arg = "$$" THEN ArgExp(arg, last_status, p) ELSE lastExp
               /\ g' = [g EXCEPT !.run.forkedAfterFail = @ \/ (g.run.fail = "fork"),
                                 !.run.wired =
                                     IF g.trace
                                     THEN Append(@, [stage |-> i, pid |-> p,
                                            in  |-> ChildStdin(i, cur.n, cur.in_fd),
                                            out |-> ChildStdout(i, cur.n, cur.out_fd),
                                            argv |->
                                              IF cur.runner = "hp"
                                              THEN build_argv_words_only(cur.name, cur.args)
                                              ELSE expand_to_argv(cur.name, cur.args,
                                                     last_status, env, getpid(p), NoSub)])
                                     ELSE @,
                                 !.atPid = @ \/ (arg = "$$")]
               /\ UNCHANGED pfds
          ELSE /\ g.run.forkFails < MaxForkFails
               /\ g' = [g EXCEPT !.run.fail = "fork", !.run.forkFails = @ + 1]
               /\ UNCHANGED <<procs, lastExp>>
               /\ IF cur.runner = "piping"
                  THEN \* if (pid < 0): close_all_pipes, then reap pids[0..i-1]
                       /\ pfds' = ClosePipes(pfds, pipes, cur.n - 1)
                       /\ cur' = [cur EXCEPT !.failI = i, !.i = 0]
                       /\ pc' = "pp_reap"
                       /\ UNCHANGED pids
                  ELSE \* handle_pipeline leaves pids[i] = 0 (calloc);
                       \* run_pipeline_with_io stores pids[i] = -1
                       /\ pids' = IF cur.runner = "rpw" THEN [pids EXCEPT ![p] = -1]
                                  ELSE pids
                       /\ cur' = [cur EXCEPT !.i = i + 1]
                       /\ pc' = IF i + 1 = cur.n THEN "pl_close" ELSE "pl_fork"
                       /\ UNCHANGED pfds
    /\ UNCHANGED <<last_status, sigblocked, sigpending, interactive, env, shouldexit,
                   linesLeft, stmtsLeft, frames, pipes, st, exitcode>>
    /\ UNCHANGED stdio

Mut_pipeline_parent_close ==
    /\ pc = "pl_close"
    /\ cur' = [cur EXCEPT !.i = 0]
    /\ st' = 0
    /\ pc' = "pl_wait"
    /\ UNCHANGED <<last_status, sigblocked, sigpending, interactive, env, shouldexit,
                   linesLeft, stmtsLeft, frames, pipes, pids, procs, lastExp,
                   exitcode, g, pfds>>
    /\ UNCHANGED stdio

\* after the fork loop the parent closes every pipe end
pipeline_parent_close ==
    /\ pc = "pl_close"
    /\ pfds' = ClosePipes(pfds, pipes, cur.n - 1)
    /\ cur' = [cur EXCEPT !.i = 0]
    /\ st' = 0
    /\ pc' = "pl_wait"
    /\ UNCHANGED <<last_status, sigblocked, sigpending, interactive, env, shouldexit,
                   linesLeft, stmtsLeft, frames, pipes, pids, procs, lastExp,
                   exitcode, g>>
    /\ UNCHANGED stdio

\* what the runner's return leaves behind, for the history
RunDone(r, ps, fds, rc, ls) ==
    [r EXCEPT !.done = TRUE, !.after = fds,
              !.allForked = \A k \in 1..cur.n : pids[k] > 0,
              !.unreaped = \E q \in Pids : ps[q].state # "none",
              !.rv = rc, !.ls = ls]

\* one iteration of the wait loop; the last one also computes the status and
\* returns to the caller
pipeline_wait ==
    /\ pc = "pl_wait"
    /\ LET i == cur.i
           last == (i = cur.n - 1)
       IN \E ret \in WaitRets(pids[i + 1]) :
          \E rec \in WaitRecs(ret),
             junk \in (IF cur.runner = "hp" /\ ret <= 0 THEN UninitInts ELSE {0}) :
          LET got  == IF ret > 0 THEN RawStatus(rec) ELSE junk
              stN  == IF TakesStatus(i, cur.n) THEN got ELSE st
              code == status_to_exitcode(stN)
              own  == ret > 0 /\ ret = pids[i + 1]
              r1   == [g.run EXCEPT
                         !.firstRec = IF i = 0 /\ own THEN rec ELSE @,
                         !.lastRec = IF last /\ own THEN rec ELSE @]
          IN  /\ procs' = Reap(procs, ret)
              /\ IF ~last
                 THEN /\ cur' = [cur EXCEPT !.i = i + 1]
                      /\ st' = stN
                      /\ g' = [g EXCEPT !.run = r1]
                      /\ UNCHANGED <<pc, last_status, frames, pfds, pipes, pids>>
                 ELSE /\ last_status' = IF cur.runner = "piping" THEN last_status
                                        ELSE code
                      /\ pfds' = CloseRedirs(pfds, cur)
                      /\ pc' = RetPc(frames)
                      /\ frames' = RetFrames(frames, last_status')
                      /\ cur' = NoCur
                      /\ st' = 0
                      /\ pipes' = <<>>
                      /\ pids' = <<>>
                      /\ g' = [g EXCEPT
                                 !.run = RunDone(r1, procs', pfds, code,
                                            IF cur.runner = "piping" THEN code
                                            ELSE last_status'),
                                 !.wait = [who |-> cur.runner, ok |-> own, rec |-> rec,
                                           noexec |-> ret > 0 /\ procs[ret].noexec],
                                 !.prev = IF g.run.fail # "none" \/ ~own THEN 1
                                          ELSE Expected(rec),
                                 !.eval = last_status']
    /\ UNCHANGED <<sigblocked, sigpending, interactive, env, shouldexit, linesLeft,
                   stmtsLeft, lastExp, exitcode>>
    /\ UNCHANGED stdio

\* piping.c after a failed fork: for (k = 0; k < i; k++) waitpid(pids[k], &st, 0);
\* then return 1
piping_reap ==
    /\ pc = "pp_reap"
    /\ IF cur.i < cur.failI
       THEN /\ \E ret \in WaitRets(pids[cur.i + 1]) : procs' = Reap(procs, ret)
            /\ cur' = [cur EXCEPT !.i = cur.i + 1]
            /\ UNCHANGED <<pc, g, pipes, pids>>
       ELSE /\ pc' = RetPc(frames)
            /\ cur' = NoCur
            /\ pipes' = <<>>
            /\ pids' = <<>>
            /\ g' = [g EXCEPT !.run = RunDone(g.run, procs, pfds, 1, 1), !.prev = 1]
            /\ UNCHANGED procs
    /\ UNCHANGED <<last_status, sigblocked, sigpending, interactive, env, shouldexit,
                   linesLeft, stmtsLeft, frames, st, pfds, lastExp, exitcode>>
    /\ UNCHANGED stdio

PipeCur(runner, n, infd, outfd, redir) ==
    [runner |-> runner, name |-> "none", n |-> n, i |-> 0, in_fd |-> infd,
     out_fd |-> outfd, redir |-> redir, failI |-> 0, args |-> <<>>, outp |-> <<>>]

\* execute_node: case sym_pipeline -> handle_pipeline;
\* eval_node_status: case sym_pipeline -> run_pipeline_with_io(n, -1, -1)
\* Cmds: the children after the name that every stage command has
pipeline_of(Cmds) ==
    /\ AtDispatch /\ Consume
    /\ \E n \in Stages, args \in Cmds :
          StartPipeline(IF Ctx = "top" THEN "hp" ELSE "rpw", n, pfds,
                        [PipeCur(IF Ctx = "top" THEN "hp" ELSE "rpw", n, -1, -1, FALSE)
                           EXCEPT !.args = args])
    /\ UNCHANGED <<sigblocked, sigpending, interactive, env, shouldexit, linesLeft, exitcode>>
    /\ UNCHANGED stdio

exec_pipeline == pipeline_of({<<>>})

\* pipelines whose stage commands have no argument, a word, a quoted string,
\* "$A" or "$?"
StageCmds == {<<>>, <<Word(<<"x">>)>>, <<RawString(<<"x">>)>>, <<SimpleExp("A")>>,
              <<DollarQuestion>>}
stage_pipeline == pipeline_of(StageCmds)

\* piping_handle_pipeline: the runner of piping.c, started where execute_node
\* starts handle_pipeline
call_piping ==
    /\ pc = "prog" /\ stmtsLeft > 0
    /\ stmtsLeft' = stmtsLeft - 1
    /\ \E n \in Stages :
          StartPipeline("piping", n, pfds, PipeCur("piping", n, -1, -1, FALSE))
    /\ UNCHANGED <<sigblocked, sigpending, interactive, env, shouldexit, linesLeft, exitcode>>
    /\ UNCHANGED stdio

(***************************************************************************)
(* Redirected statements: handle_redirected_statement, run_command_with_io.*)
(***************************************************************************)
Redirects == [is_input : BOOLEAN, ok : BOOLEAN]
RedirSeqs == UNION {[1..k -> Redirects] : k \in 1..MaxRedirs}

\* in_k, out_k: the file_redirect child that in_fd / out_fd was opened for;
\* reclosed: close() was called on a descriptor that was not open; made: the
\* output targets that open(path, O_WRONLY | O_CREAT | O_TRUNC) has created or
\* truncated
NoRedir(F) == [in_fd |-> -1, out_fd |-> -1, have_in |-> FALSE, have_out |-> FALSE,
               fds |-> F, failed |-> FALSE, diag |-> "none", in_k |-> 0, out_k |-> 0,
               reclosed |-> FALSE, made |-> {}]

\* if (have && fd >= 0) close(fd), for an fd that is not open
BadClose(F, have, fd) == have /\ fd >= 0 /\ fd \notin F

Mut_CloseIf(F, have, fd) == F

\* if (have && fd >= 0) close(fd);
CloseIf(F, have, fd) == IF have /\ fd >= 0 THEN F \ {fd} ELSE F

\* the loop of a run in which every open() that fails is taken for a success
RECURSIVE Mut_RedirLoop(_, _, _)
Mut_RedirLoop(rs, k, s) ==
    IF k > Len(rs) THEN s
    ELSE LET f1 == IF rs[k].is_input THEN CloseIf(s.fds, s.have_in, s.in_fd)
                   ELSE CloseIf(s.fds, s.have_out, s.out_fd)
             fd == LowestFree(f1)
         IN  IF rs[k].is_input
             THEN Mut_RedirLoop(rs, k + 1,
                     [s EXCEPT !.fds = f1 \cup {fd}, !.in_fd = fd, !.have_in = TRUE])
             ELSE Mut_RedirLoop(rs, k + 1,
                     [s EXCEPT !.fds = f1 \cup {fd}, !.out_fd = fd, !.have_out = TRUE])

\* the loop over the file_redirect children, from child k on; utils_error
\* writes "minibash: cannot open for <input|output>: <path>" to standard error
RECURSIVE RedirLoop(_, _, _)
RedirLoop(rs, k, s) ==
    IF k > Len(rs) \/ s.failed THEN s
    ELSE LET f1 == IF rs[k].is_input THEN CloseIf(s.fds, s.have_in, s.in_fd)
                   ELSE CloseIf(s.fds, s.have_out, s.out_fd)
             fd == LowestFree(f1)
         IN  IF ~rs[k].ok
             THEN [s EXCEPT !.failed = TRUE,
                            !.diag = IF rs[k].is_input THEN "cannot open for input"
                                     ELSE "cannot open for output",
                            !.fds = CloseIf(CloseIf(f1, s.have_out, s.out_fd),
                                            s.have_in, s.in_fd),
                            !.reclosed =
                                \/ BadClose(f1, s.have_out, s.out_fd)
                                \/ BadClose(CloseIf(f1, s.have_out, s.out_fd),
                                            s.have_in, s.in_fd)]
             ELSE IF rs[k].is_input
             THEN RedirLoop(rs, k + 1,
                     [s EXCEPT !.fds = f1 \cup {fd}, !.in_fd = fd, !.have_in = TRUE,
                               !.in_k = k])
             ELSE RedirLoop(rs, k + 1,
                     [s EXCEPT !.fds = f1 \cup {fd}, !.out_fd = fd, !.have_out = TRUE,
                               !.out_k = k, !.made = @ \cup {k}])

\* what the file system does to the targets of rs: whether some open() is
\* refused, and the direction of the first target that is
Refused(rs) ==
    LET bad == {k \in 1..Len(rs) : ~rs[k].ok}
    IN  IF bad = {} THEN NoRd
        ELSE LET k == CHOOSE i \in bad : \A j \in bad : i <= j
             IN  [NoRd EXCEPT !.any = TRUE,
                              !.first = IF rs[k].is_input THEN "input" ELSE "output"]

\* the child of run_command_with_io before exec_command_in_child:
\* if (in_fd != -1) dup2(in_fd, STDIN_FILENO); the same for out_fd
ChildStreams(infd, outfd) ==
    [in     |-> IF infd # -1 THEN "statement" ELSE "inherited",
     out    |-> IF outfd # -1 THEN "statement" ELSE "inherited",
     failed |-> FALSE]

\* apply_command_redirections: the file_redirect children of the command,
\* from child k on, each opened and dup2'ed onto its stream; -1 at the first
\* open() that fails
RECURSIVE apply_command_redirections(_, _, _)
apply_command_redirections(crs, k, io) ==
    IF k > Len(crs) \/ io.failed THEN io
    ELSE IF ~crs[k].ok THEN [io EXCEPT !.failed = TRUE]
    ELSE IF crs[k].is_input
    THEN apply_command_redirections(crs, k + 1, [io EXCEPT !.in = "command"])
    ELSE apply_command_redirections(crs, k + 1, [io EXCEPT !.out = "command"])

\* the file_redirect children a command can have
CmdRedirSeqs == UNION {[1..k -> Redirects] : k \in 0..MaxCmdRedirs}

\* handle_redirected_statement, for a body that is a command with the
\* redirections crs of its own, a pipeline, or something else
redirected_of(CmdRedirs) ==
    /\ AtDispatch /\ Consume
    /\ \E rs \in RedirSeqs, body \in {"command", "pipeline", "other"} :
         LET s     == RedirLoop(rs, 1, NoRedir(pfds))
             rd    == IF g.trace
                      THEN [Refused(rs) EXCEPT !.diag = s.diag, !.rs = rs,
                                               !.in_k = s.in_k, !.out_k = s.out_k,
                                               !.reclosed = s.reclosed,
                                               !.made = s.made]
                      ELSE [Refused(rs) EXCEPT !.diag = s.diag]
             infd  == IF s.have_in THEN s.in_fd ELSE -1
             outfd == IF s.have_out THEN s.out_fd ELSE -1
         IN
         IF s.failed \/ body = "other"
         THEN \* an open failed: last_status = 1, return; or
              \* "redirected_statement: unexpected body": rc = 1
              /\ (s.failed => body = "command")
              /\ pfds' = IF s.failed THEN s.fds
                         ELSE CloseIf(CloseIf(s.fds, s.have_in, s.in_fd),
                                      s.have_out, s.out_fd)
              /\ last_status' = 1
              /\ pc' = RetPc(frames)
              /\ frames' = RetFrames(frames, last_status')
              /\ lastExp' = <<>>
              /\ g' = [ClearSnap([g EXCEPT !.atExp = -1,
                                           !.prev = IF s.failed THEN 1 ELSE -1,
                                           !.eval = 1])
                          EXCEPT !.rd = rd]
              /\ UNCHANGED <<procs, pids, st, cur, pipes>>
         ELSE IF body = "command"
         THEN \* run_command_with_io: fork; the child expands and execs
              \E crs \in CmdRedirs, forkOk \in BOOLEAN :
              \E arg \in (IF forkOk THEN {"none", "$?", "$$"} ELSE {"none"}),
                 nx \in (IF forkOk THEN BOOLEAN ELSE {FALSE}) :
              LET io == apply_command_redirections(crs, 1, ChildStreams(infd, outfd))
                  snap == IF g.trace /\ forkOk
                          THEN [done |-> TRUE, ran |-> ~io.failed,
                                stmtIn |-> s.have_in, stmtOut |-> s.have_out,
                                cmdIn |-> \E k \in 1..Len(crs) : crs[k].is_input,
                                cmdOut |-> \E k \in 1..Len(crs) : ~crs[k].is_input,
                                in |-> io.in, out |-> io.out]
                          ELSE NoIo
              IN
                /\ (~forkOk => crs = <<>>)
                /\ (io.failed => arg = "none" /\ ~nx)
                /\ pfds' = s.fds
                /\ procs' = IF forkOk
                            THEN [procs EXCEPT ![1] =
                                    [ExecChild("rc", 0, {}, nx) EXCEPT
                                       !.noredir = io.failed,
                                       !.out1 = @ /\ io.out = "inherited"]]
                            ELSE procs
                /\ pids' = IF forkOk THEN <<1>> ELSE <<-1>>
                /\ st' = 0
                /\ cur' = PipeCur("rc", 1, infd, outfd, TRUE)
                /\ pc' = "rc_wait"
                /\ lastExp' = IF forkOk THEN ArgExp(arg, last_status, 1) ELSE <<>>
                /\ g' = [ClearSnap([g EXCEPT
                            !.atExp = IF forkOk /\ arg = "$?" THEN g.prev ELSE -1])
                          EXCEPT !.rd = rd, !.atPid = forkOk /\ arg = "$$",
                                 !.io = snap]
                /\ UNCHANGED <<last_status, frames, pipes>>
         ELSE \E n \in Stages :
                StartPipeline("rpw", n, s.fds, PipeCur("rpw", n, infd, outfd, TRUE))
    /\ UNCHANGED <<sigblocked, sigpending, interactive, env, shouldexit, linesLeft, exitcode>>
    /\ UNCHANGED stdio

\* the body is a command without redirections of its own
handle_redirected_statement == redirected_of({<<>>})

\* the body is a command with up to MaxCmdRedirs redirections of its own
redirect_both == redirected_of(CmdRedirSeqs)

\* run_command_with_io's waitpid and status chain, then the tail of
\* handle_redirected_statement: close(in_fd), close(out_fd), last_status = rc
run_command_with_io_wait ==
    /\ pc = "rc_wait"
    /\ \E ret \in WaitRets(pids[1]) : \E rec \in WaitRecs(ret) :
         LET stN == IF ret > 0 THEN RawStatus(rec) ELSE st
             rc  == status_to_exitcode(stN)
         IN  /\ procs' = Reap(procs, ret)
             /\ last_status' = AfterRunner(cur, rc, rc)
             /\ g' = [g EXCEPT
                        !.wait = [who |-> "rc", ok |-> ret > 0 /\ ret = pids[1],
                                  rec |-> rec,
                                  noexec |-> ret > 0 /\ procs[ret].noexec],
                        !.prev = IF ret > 0 /\ ret = pids[1] THEN Expected(rec) ELSE 1,
                        !.eval = last_status']
    /\ st' = 0
    /\ pids' = <<>>
    /\ pfds' = CloseRedirs(pfds, cur)
    /\ pc' = RetPc(frames)
    /\ frames' = RetFrames(frames, last_status')
    /\ cur' = NoCur
    /\ UNCHANGED <<sigblocked, sigpending, interactive, env, shouldexit, linesLeft,
                   stmtsLeft, pipes, lastExp, exitcode>>
    /\ UNCHANGED stdio

(***************************************************************************)
(* Specifications.                                                         *)
(***************************************************************************)
\* the shell as main runs it; its lists are flat (ListSpec has the nested ones)
Next ==
    \/ main_read
    \/ execute_script_end
    \/ exec_comment
    \/ exec_variable_assignment
    \/ exec_unimplemented
    \/ exec_flat_list
    \/ junction
    \/ list_end
    \/ handle_command
    \/ capture_command_subst_wait
    \/ handle_command_wait
    \/ exec_pipeline
    \/ pipeline_fork
    \/ pipeline_parent_close
    \/ pipeline_wait
    \/ handle_redirected_statement
    \/ run_command_with_io_wait
    \/ \E p \in Pids : child_exit(p)

Spec == Init /\ [][Next]_vars

\* lists over simple statements, with the operators and operand statuses of
\* every list kept in its frame
ListInit == InitWith(TRUE)

ListNext ==
    \/ main_read
    \/ execute_script_end
    \/ exec_variable_assignment
    \/ exec_unimplemented
    \/ exec_list
    \/ junction
    \/ list_end
    \/ handle_command
    \/ capture_command_subst_wait
    \/ handle_command_wait
    \/ \E p \in Pids : child_exit(p)

ListSpec == ListInit /\ [][ListNext]_vars

\* words: scripts of assignments and echo commands run as statements of the
\* program, in a shell that inherited any of A=w, B=w
WordEnvs == [VarNames -> {NoValue, [set |-> TRUE, val |-> <<"w">>]}]

WordInit == InitOf(TRUE, WordEnvs)

WordNext ==
    \/ main_read
    \/ execute_script_end
    \/ assign_words
    \/ exec_while
    \/ echo_words
    \/ capture_command_subst_wait
    \/ \E p \in Pids : child_exit(p)

WordSpec == WordInit /\ [][WordNext]_vars

\* allocation failure: the builtin echo with up to MaxArgs children, where
\* the array of argv and every element may fail to be allocated.  Nothing is
\* allocated after expand_one_arg has returned the null pointer
AllocOutcomes == {m \in [alloc : BOOLEAN, spare : BOOLEAN] : m.alloc => m.spare}
Allocs(n) == {m \in [1..n -> AllocOutcomes] :
                 \A i, j \in 1..n : (i < j /\ ~m[i].spare) => m[j].alloc}
AllocNodes == {Word(<<"x">>), DqString(<<>>), SimpleExp("A"), FileRedirect}
AllocCmds  == UNION {[1..k -> AllocNodes] : k \in 0..MaxArgs}
AllocEnvs  == {[EmptyEnv EXCEPT !["A"] = [set |-> TRUE, val |-> <<"w">>]]}

echo_oom ==
    /\ AtDispatch /\ Consume
    /\ \E children \in AllocCmds, callocOk \in BOOLEAN :
       \E mem \in (IF callocOk THEN Allocs(1 + Len(ArgChildren(children)))
                   ELSE {[i \in 1..(1 + Len(ArgChildren(children))) |->
                            [alloc |-> TRUE, spare |-> TRUE]]}) :
         LET x == expand_to_argv_oom("echo", children, last_status, env, getpid(0),
                                     NoSub, callocOk, mem)
             \* strcmp(argv[0], "echo"): an argv[0] that came out empty is
             \* not the builtin, and no program has the empty name
             name == IF x.null \/ x.argv[1] = "echo" THEN "echo" ELSE "ext"
         IN  \E forkOk \in (IF name = "ext" THEN BOOLEAN ELSE {TRUE}) :
               /\ RunWith(x.argv,
                          [done |-> TRUE, calloc |-> callocOk, mem |-> mem,
                           null |-> x.null, err |-> x.err, calls |-> x.calls,
                           live |-> x.live],
                          name, children, NoSub, ~x.null, forkOk,
                          name = "ext" /\ forkOk)
               /\ procs' = IF name = "ext" /\ forkOk
                            THEN [procs EXCEPT ![1] = ExecChild("cmd", 0, {}, TRUE)]
                            ELSE procs
    /\ UNCHANGED <<sigblocked, sigpending, interactive, env, shouldexit, linesLeft,
                   pipes, pfds, exitcode>>

AllocInit == InitOf(TRUE, AllocEnvs)

AllocNext ==
    \/ main_read
    \/ execute_script_end
    \/ echo_oom
    \/ handle_command_wait
    \/ \E p \in Pids : child_exit(p)

AllocSpec == AllocInit /\ [][AllocNext]_vars

\* standard output: commands, redirected statements and their pipelines as
\* statements of the program, with standard output a terminal or not
OutInit == InitAll(FALSE, {EmptyEnv}, {[NoStdio EXCEPT !.on = TRUE, !.tty = t] :
                                        t \in BOOLEAN})

OutNext ==
    \/ main_read
    \/ execute_script_end
    \/ handle_command
    \/ capture_command_subst_wait
    \/ handle_command_wait
    \/ redirect_both
    \/ run_command_with_io_wait
    \/ pipeline_fork
    \/ pipeline_parent_close
    \/ pipeline_wait
    \/ \E p \in Pids : child_exit(p)

OutSpec == OutInit /\ [][OutNext]_vars

\* pipelines as statements of the program and as operands of a list
StageNext ==
    \/ main_read
    \/ execute_script_end
    \/ exec_flat_list
    \/ junction
    \/ list_end
    \/ stage_pipeline
    \/ pipeline_fork
    \/ pipeline_parent_close
    \/ pipeline_wait
    \/ \E p \in Pids : child_exit(p)

StageSpec == ListInit /\ [][StageNext]_vars

\* the three pipeline runners, started from the program level
\* redirected statements whose body has redirections of its own
RedirNext ==
    \/ main_read
    \/ execute_script_end
    \/ redirect_both
    \/ run_command_with_io_wait
    \/ pipeline_fork
    \/ pipeline_parent_close
    \/ pipeline_wait
    \/ \E p \in Pids : child_exit(p)

RedirSpec == ListInit /\ [][RedirNext]_vars

PipeNext ==
    \/ main_read
    \/ execute_script_end
    \/ exec_pipeline
    \/ call_piping
    \/ handle_redirected_statement
    \/ run_command_with_io_wait
    \/ pipeline_fork
    \/ pipeline_parent_close
    \/ pipeline_wait
    \/ piping_reap
    \/ \E p \in Pids : child_exit(p)

PipeSpec == Init /\ [][PipeNext]_vars

\* the same runners with stages that read their input to the end: a stage
\* terminates only once it sees end of file.  The shell and every child are
\* processes the kernel keeps scheduling.
ShellStep ==
    \/ main_read
    \/ execute_script_end
    \/ exec_pipeline
    \/ call_piping
    \/ handle_redirected_statement
    \/ run_command_with_io_wait
    \/ pipeline_fork
    \/ pipeline_parent_close
    \/ pipeline_wait
    \/ piping_reap

FairPipeNext == ShellStep \/ \E p \in Pids : child_exit_on_eof(p)

FairPipeSpec ==
    /\ Init
    /\ [][FairPipeNext]_vars
    /\ WF_vars(ShellStep)
    /\ \A p \in Pids : WF_vars(child_exit_on_eof(p))

(***************************************************************************)
(* Properties.                                                             *)
(***************************************************************************)
\* C1: whenever the shell has waited for the child of a simple command, of the
\* body of a redirected statement or of the last stage of a pipeline, and
\* waitpid returned that child, last_status is the child's exit code c if it
\* exited normally and 128 + s if signal s killed it.
C1_WaitedChildStatus ==
    (g.wait.ok /\ g.wait.who \in {"cmd", "rc", "hp", "rpw"}) =>
        /\ g.wait.rec.kind = "exit" => last_status = g.wait.rec.val
        /\ g.wait.rec.kind = "sig"  => last_status = 128 + g.wait.rec.val

\* the body of a redirected statement was killed by SIGSEGV: status 139
C1_Witness ==
    /\ g.wait.ok /\ g.wait.who = "rc"
    /\ g.wait.rec.kind = "sig" /\ g.wait.rec.val = 11
    /\ last_status = 139

\* the rule of the shell language for the operator between two statements
ShouldRun(op, status) ==
    CASE op = "and" -> status = 0
      [] op = "or"  -> status # 0
      [] OTHER      -> TRUE

\* C2: at every junction of a list the right statement runs iff the operator
\* is && and the status of the last evaluated statement is 0, or the operator
\* is || and that status is non-zero, or the operator is ; or &.
C2_Junction ==
    g.j.op # "none" =>
        /\ g.j.ran <=> ShouldRun(g.j.op, g.j.status)
        /\ g.j.ran <=> pc = "operand"

\* a statement killed by a signal, then &&: the right statement is skipped
C2_Witness ==
    /\ g.j.op = "and" /\ g.j.status = 139 /\ ~g.j.ran
    /\ pc = "junction"

\* the status of the last operand of a list that was evaluated (-1 marks a
\* skipped operand in the history)
RECURSIVE LastEvaluated(_)
LastEvaluated(sts) ==
    IF sts = <<>> THEN -1
    ELSE IF sts[Len(sts)] # -1 THEN sts[Len(sts)]
    ELSE LastEvaluated(SubSeq(sts, 1, Len(sts) - 1))

C3_AtListEnd ==
    g.list.done =>
        /\ g.list.final = LastEvaluated(g.list.sts)
        /\ last_status = g.list.final
        \* false && echo y ; echo z  prints only z
        /\ (g.list.ops = <<"and", "semi">> /\ g.list.sts[1] # 0) =>
              (g.list.sts[2] = -1 /\ g.list.sts[3] # -1)
        \* false || echo y && echo z  prints y, then z
        /\ (g.list.ops = <<"or", "and">> /\ g.list.sts[1] # 0) =>
              (g.list.sts[2] # -1 /\ (g.list.sts[2] = 0 => g.list.sts[3] # -1))

C3_Step ==
    /\ \* a junction is decided on the status of the last evaluated operand
       (pc = "junction" /\ g'.j.op # "none") =>
           (g'.j.ran <=> ShouldRun(g'.j.op, LastEvaluated(Top.sts)))
    /\ \* a skipped operand neither runs nor changes last_status
       (pc = "junction" /\ g'.j.op # "none" /\ ~g'.j.ran) =>
           /\ last_status' = last_status
           /\ procs' = procs
           /\ lastExp' = lastExp
           /\ pc' = "junction"

\* C3: when a list ends, last_status is the status of the last operand that
\* was evaluated; a skipped operand neither runs nor changes last_status and
\* the next junction is decided on the status of the last evaluated operand;
\* `false && echo y ; echo z` runs only the last echo and
\* `false || echo y && echo z` runs both.
C3_ListStatus == [](C3_AtListEnd) /\ [][C3_Step]_vars

\* false && echo y ; echo z has ended: the second operand was skipped, the
\* third ran, the list's status is the third's
C3_Witness ==
    /\ g.list.done
    /\ g.list.ops = <<"and", "semi">>
    /\ g.list.sts = <<1, -1, 0>>
    /\ last_status = 0

\* C4: "$?" expanded by the statement that follows statement S is the decimal
\* of S's exit status, whatever kind of statement S is.  g.atExp is the exit
\* status S has by the rules of the shell language (0 for an assignment, the
\* last stage's status for a pipeline, 1 after an internal failure).
C4_DollarQuestion ==
    (lastExp # <<>> /\ g.atExp >= 0) => lastExp = FormatD(g.atExp)

\* C5: after a pipeline whose N stages were all started has completed, its
\* status is the one the wait status of stage N-1 gives, whatever the other
\* stages returned and whatever order the stages terminated in.
C5_LastStageOnly ==
    (g.run.done /\ g.run.fail = "none") =>
        /\ g.run.allForked
        /\ g.run.lastRec # NoRec
        /\ g.run.ls = Expected(g.run.lastRec)
        /\ g.run.runner # "piping" => last_status = Expected(g.run.lastRec)

\* three stages; the last one exited with 1 before the first one, which was
\* killed by a signal, had terminated
C5_Witness ==
    /\ g.run.done /\ g.run.fail = "none" /\ g.run.runner = "hp"
    /\ g.run.n = 3
    /\ g.run.lastFirst
    /\ g.run.firstRec.kind = "sig"
    /\ g.run.lastRec = [kind |-> "exit", val |-> 1, core |-> FALSE]
    /\ last_status = 1

\* C6: when pipe() or fork() fails while a pipeline is started, no further
\* stage is forked, every child already started is reaped, every pipe end is
\* closed in the parent and last_status is 1.
C6_StartFailure ==
    (g.run.done /\ g.run.fail \in {"pipe", "fork"} /\ g.run.runner # "piping") =>
        /\ ~g.run.forkedAfterFail
        /\ ~g.run.unreaped
        /\ g.run.after = g.run.before
        /\ last_status = 1

\* C7: on every path through a pipeline runner the descriptors open in the
\* parent when the runner returns are those open when it was called.
C7_NoPipeLeak ==
    g.run.done => g.run.after = g.run.before

\* pipe() failed in a pipeline that is the body of a redirected statement,
\* whose redirection descriptors are open around the runner
C7_Witness ==
    /\ g.run.done /\ g.run.fail = "pipe" /\ g.run.n = 3
    /\ g.run.redir /\ g.run.before # {}
    /\ g.run.after = g.run.before

InPipeline == pc \in {"pl_fork", "pl_close", "pl_wait", "pp_reap"}

\* the pid slot of stage k
StagePid(k) == k + 1

C8_Closed ==
    /\ \A p \in Pids : Live(p) /\ cur.n > 1 =>
          procs[p].holds = WiredEnds(procs[p].stage, cur.n)
    /\ pc = "pl_wait" =>
          /\ ParentHolds = {}
          /\ \A p \in Pids :
                (Live(p) /\ procs[p].stage > 0
                   /\ ~Live(StagePid(procs[p].stage - 1))) => SeesEOF(p)

\* C8: every child keeps only the two ends wired to its standard streams, the
\* parent holds no pipe end once it waits; so a stage whose predecessor has
\* exited sees end of file, and when every stage terminates at end of file
\* the runner returns.
C8_EofPropagates == [](C8_Closed) /\ (InPipeline ~> pc = "prog")

\* a three-stage pipeline of stages that read to end of file has completed
C8_Witness ==
    /\ g.run.done /\ g.run.fail = "none" /\ g.run.n = 3
    /\ g.run.runner = "rpw"
    /\ ~g.run.unreaped

WaitPcs == {"cmd_wait", "subst_wait", "rc_wait", "pl_wait", "pp_reap"}

\* C9: SIGCHLD is blocked wherever the shell is in a foreground waitpid, it is
\* unblocked whenever the main loop is about to read, and the assertion at the
\* top of the loop never fails.
C9_SigchldMask ==
    /\ pc \in WaitPcs => sigblocked
    /\ pc = "read" => ~sigblocked
    /\ pc # "abort"

\* back at the top of the loop after a line whose command was killed by a
\* signal: a child terminated while SIGCHLD was blocked
C9_Witness ==
    /\ pc = "read" /\ ~sigblocked
    /\ interactive /\ linesLeft < MaxLines
    /\ last_status = 139

\* C10: the status the process exits with is last_status after the final
\* statement.
C10_ExitStatus ==
    pc = "exit" => exitcode = last_status


\* C11: when open() refuses a target of a redirected statement, the diagnostic
\* "cannot open for input" or "cannot open for output" of the first refused
\* target is written, no child is forked for the body and the statement ends
\* with last_status = 1.
C11_RedirectFailure ==
    g.rd.any =>
        /\ g.rd.diag = (IF g.rd.first = "input" THEN "cannot open for input"
                        ELSE "cannot open for output")
        /\ \A p \in Pids : procs[p].state = "none"
        /\ pc \in {"prog", "junction"}
        /\ last_status = 1

\* a redirected statement that is an operand of a list: its output target was
\* refused, the list goes on with status 1 and no descriptor is left open
C11_Witness ==
    /\ g.rd.any /\ g.rd.first = "output"
    /\ g.rd.diag = "cannot open for output"
    /\ pc = "junction" /\ last_status = 1
    /\ pfds = {}


\* C12: when the exec of an external command fails, the child exits with 127
\* and the parent that waited for it ends with last_status = 127; for a
\* simple command, the body of a redirected statement and the last stage of a
\* pipeline.
C12_ExecFailure ==
    (g.wait.ok /\ g.wait.noexec /\ g.wait.who \in {"cmd", "rc", "hp", "rpw"}) =>
        /\ g.wait.rec.kind = "exit" /\ g.wait.rec.val = 127
        /\ last_status = 127

\* the last of three stages of a list-operand pipeline could not be exec'ed
C12_Witness ==
    /\ g.wait.ok /\ g.wait.noexec /\ g.wait.who = "rpw"
    /\ g.run.n = 3 /\ ~g.run.redir
    /\ last_status = 127


\* C13: last_status, which changes only when a statement completes, is always
\* an integer in [0, 255], whatever the wait status was: a normal exit, a
\* death by signal, a stop pattern, or the word a failed wait left untouched.
C13_StatusRange ==
    last_status \in 0..255

\* handle_pipeline's last waitpid failed and the status word it never wrote
\* held the pattern of a death by signal 11
C13_Witness ==
    /\ g.wait.who = "hp" /\ ~g.wait.ok
    /\ g.run.fail = "fork"
    /\ last_status = 139


\* C14: every expansion of "$$" yields the decimal process id of the
\* interpreter, also when the command that expands it is a pipeline stage or
\* the body of a redirected statement.
C14_DollarDollar ==
    g.atPid => lastExp = FormatD(ShellPid)


\* a command "echo $N" or "echo ${N}" for the variable N
EchoOfVar(c, n) ==
    c.done /\ c.name = "echo" /\ c.children \in {<<SimpleExp(n)>>, <<BraceExp(n)>>}

\* the state after a top-level assignment N=V whose value V is a bare word
\* (or is absent): N is set to V, whatever it was, and last_status is 0
C15_Assigned ==
    (g.asg.done /\ g.asg.ctx = "top" /\ g.asg.valn.sym \in {"word", "null"}) =>
        /\ env[g.asg.name] = [set |-> TRUE, val |-> g.asg.valn.text]
        /\ last_status = 0

\* the state after "echo $N" / "echo ${N}": the value of N and a newline were
\* printed, only a newline if N is unset, and last_status is 0
C15_Echoed ==
    \A n \in VarNames :
        EchoOfVar(g.cmd, n) =>
            /\ g.cmd.out = (IF env[n].set THEN env[n].val ELSE <<>>) \o <<"\n">>
            /\ last_status = 0

\* the assignment N=V directly followed by "echo $N"; an assignment leaves
\* the other variables alone
C15_Step ==
    /\ g'.asg.done => \A n \in VarNames \ {g'.asg.name} : env'[n] = env[n]
    /\ (g.asg.done /\ g.asg.ctx = "top" /\ g.asg.valn.sym = "word"
          /\ EchoOfVar(g'.cmd, g.asg.name)) =>
           /\ g'.cmd.out = g.asg.valn.text \o <<"\n">>
           /\ last_status' = 0

\* C15: an assignment A=V sets (overwrites) the variable A and sets
\* last_status to 0; a later "echo $A" or "echo ${A}" prints V and a newline
\* and leaves last_status 0; an unset variable expands to the empty string.
C15_AssignThenEcho == [](C15_Assigned /\ C15_Echoed) /\ [][C15_Step]_vars

\* "echo $A" has printed the v that an assignment stored, "w" being the only
\* value a variable can start with
C15_Witness ==
    /\ EchoOfVar(g.cmd, "A")
    /\ env["A"] = [set |-> TRUE, val |-> <<"v">>]
    /\ g.cmd.out = <<"v", "\n">>
    /\ last_status = 0


\* C16: the value of an assignment is evaluated by the word expander before
\* it is stored: after a top-level assignment the variable holds the word
\* that expand_one_arg makes of the value node (quotes stripped, $VAR and
\* ${VAR} replaced), and the empty string if there is no value.
C16_ValueEvaluated ==
    (g.asg.done /\ g.asg.ctx = "top") =>
        env[g.asg.name] = [set |-> TRUE, val |-> g.asg.word]


\* the words ws written one after the other with one blank between two
RECURSIVE JoinedBySpace(_)
JoinedBySpace(ws) ==
    IF Len(ws) = 0 THEN <<>>
    ELSE IF Len(ws) = 1 THEN ws[1]
    ELSE JoinedBySpace(SubSeq(ws, 1, Len(ws) - 1)) \o <<" ">> \o ws[Len(ws)]

\* the children of a command that are arguments: all but its redirections
ArgPositions(children) ==
    {k \in 1..Len(children) : children[k].sym # "file_redirect"}

\* C17: every argument-like child of a command gives exactly one element of
\* argv, at its position in the source, even if it expands to the empty
\* string; the builtin echo prints argv[1..] with exactly one space between
\* two elements and a newline at the end, so that echo "" x prints " x".
C17_EmptyArgsKept ==
    (g.cmd.done /\ g.cmd.name = "echo") =>
        LET c    == g.cmd.children
            P    == ArgPositions(c)
            argv == g.cmd.argv
        IN  /\ Len(argv) = 1 + Cardinality(P)
            /\ argv[1] = "echo"
            /\ \A k \in P :
                 argv[1 + Cardinality({m \in P : m <= k})]
                     = expand_one_arg(c[k], 0, env, getpid(0), g.cmd.sub)
            /\ g.cmd.out = JoinedBySpace(SubSeq(argv, 2, Len(argv))) \o <<"\n">>
            /\ (c = <<DqString(<<>>), Word(<<"x">>)>> => g.cmd.out = <<" ", "x", "\n">>)

\* echo "" x has printed a blank, x and a newline
C17_Witness ==
    /\ g.cmd.done /\ g.cmd.name = "echo"
    /\ g.cmd.children = <<DqString(<<>>), Word(<<"x">>)>>
    /\ g.cmd.argv = <<"echo", <<>>, <<"x">>>>
    /\ g.cmd.out = <<" ", "x", "\n">>


\* r is what is left of the output o once its trailing newlines are gone:
\* r starts o, all of o after r is newlines, and r does not end in one
IsTrimmed(r, o) ==
    /\ Len(r) <= Len(o)
    /\ \A i \in 1..Len(r) : r[i] = o[i]
    /\ \A i \in (Len(r) + 1)..Len(o) : o[i] = "\n"
    /\ (Len(r) > 0 => r[Len(r)] # "\n")

\* C18: the value of a command substitution is what its child wrote to
\* standard output without the trailing newlines, every other byte kept:
\* only newlines or no output give the empty string, "x\n\n\n" gives "x".
C18_TrailingNewlines ==
    (g.cmd.done /\ g.cmd.sub.ok) =>
        LET c == g.cmd.children
            P == ArgPositions(c)
            o == g.cmd.sub.outp
        IN  \A k \in P :
              c[k].sym = "command_substitution" =>
                LET r == g.cmd.argv[1 + Cardinality({m \in P : m <= k})]
                IN  /\ IsTrimmed(r, o)
                    /\ ((\A i \in 1..Len(o) : o[i] = "\n") => r = <<>>)
                    /\ (o = <<"x", "\n", "\n", "\n">> => r = <<"x">>)
                    /\ (o = <<"x", "\n", "x", "\n">> => r = <<"x", "\n", "x">>)

\* echo $(c) where c wrote "x\n\n\n": the argument is "x"
C18_Witness ==
    /\ g.cmd.done /\ g.cmd.sub.ok
    /\ g.cmd.children = <<CmdSubst>>
    /\ g.cmd.sub.outp = <<"x", "\n", "\n", "\n">>
    /\ g.cmd.argv = <<"echo", <<"x">>>>


\* C19: when pipe() or fork() fails while a command substitution is run, the
\* substitution expands to the empty string and the statement it is part of
\* ends with status 1.
C19_SubstSpawnFailure ==
    (g.cmd.done /\ HasSubst(g.cmd.children) /\ ~g.cmd.sub.ok) =>
        LET c == g.cmd.children
            P == ArgPositions(c)
        IN  /\ \A k \in P :
                 c[k].sym = "command_substitution" =>
                     g.cmd.argv[1 + Cardinality({m \in P : m <= k})] = <<>>
            /\ last_status = 1


\* C20: when a stream is redirected both by a file_redirect of a command and
\* by a file_redirect of the redirected_statement around it, the stream
\* points at the statement's file when the command runs.
C20_StatementWins ==
    (g.io.done /\ g.io.ran) =>
        /\ (g.io.stmtIn /\ g.io.cmdIn => g.io.in = "statement")
        /\ (g.io.stmtOut /\ g.io.cmdOut => g.io.out = "statement")


\* C21: when NAME is unset, ${NAME:-word} expands to word.
C21_DefaultValue ==
    g.cmd.done =>
        LET c == g.cmd.children
            P == ArgPositions(c)
        IN  \A k \in P :
              (c[k].sym = "expansion" /\ c[k].parts # <<>> /\ ~env[c[k].var].set) =>
                  g.cmd.argv[1 + Cardinality({m \in P : m <= k})] = c[k].parts[1].text


\* C22: a while statement is executed: while its condition succeeds its body
\* runs, so the body of "while true; do ...; done" has run at least once when
\* the interpreter is done with the statement.
C22_WhileRuns ==
    (g.loop.done /\ g.loop.cond = "true") => g.loop.ran >= 1


\* C23: when fork() fails for a simple command or for the body of a
\* redirected statement, the shell does not wait (it created no process) and
\* last_status becomes 1.
C23_ForkFailure ==
    /\ (pc \in {"cmd_wait", "rc_wait"} => pids[1] > 0)
    /\ ((g.wait.who \in {"cmd", "rc"} /\ ~g.wait.ok) => last_status = 1)


\* the interpreter has ended (return from main, or the failed assertion)
Terminated == pc \in {"exit", "abort"}

\* it is never over while run_program has statements left
C25_NoEarlyEnd == (Terminated \/ pc = "read") => stmtsLeft = 0

\* run_program takes the statements one at a time: the count of those left
\* changes only by one, at the dispatch of the next statement, or when a new
\* script is read; with statements left every step of the shell itself is
\* that dispatch; and the shell leaves run_program only with none left
C25_Step ==
    /\ stmtsLeft' # stmtsLeft =>
           pc = "read" \/ (pc = "prog" /\ stmtsLeft' = stmtsLeft - 1)
    /\ (pc = "prog" /\ stmtsLeft > 0 /\ <<pc, last_status, g>>' # <<pc, last_status, g>>) =>
           stmtsLeft' = stmtsLeft - 1
    /\ (pc # "read" /\ pc' \in {"read", "exit", "abort"}) =>
           (pc = "prog" /\ stmtsLeft = 0 /\ pc' = "read")

\* C25: errors of the script end in a status code: after a top-level
\* statement has failed (exec failure, redirection failure, expansion
\* failure, unimplemented node) run_program still evaluates every remaining
\* statement, in order, and the interpreter does not terminate before the
\* last one is done.
C25_ErrorsAreLocal == [](C25_NoEarlyEnd) /\ [][C25_Step]_vars

\* "echo $?" has run as the last statement, after a command that could not
\* be executed: it printed 127
C25_Witness ==
    /\ pc = "prog" /\ stmtsLeft = 0
    /\ g.atExp = 127 /\ lastExp = <<"1", "2", "7">>
    /\ exitcode = -1


\* C26: in child i of an N-stage pipeline standard input is the read end of
\* the pipe from stage i-1 if i > 0, else the input descriptor the runner was
\* given if any, else the inherited one; standard output is the write end of
\* the pipe to stage i+1 if i < N-1, else the output descriptor given if any,
\* else the inherited one; so the given descriptors reach stage 0 and stage
\* N-1 only; and a running child keeps no pipe end besides those two.
C26_StageWiring ==
    InPipeline =>
        \A j \in 1..Len(g.run.wired) :
            LET w == g.run.wired[j]
                i == w.stage
                n == cur.n
            IN  /\ (i > 0 => w.in.kind = "pipe" /\ w.in.k = i)
                /\ (i = 0 /\ cur.in_fd # -1 => w.in.kind = "fd" /\ w.in.fd = cur.in_fd)
                /\ (i = 0 /\ cur.in_fd = -1 => w.in.kind = "inherited")
                /\ (i < n - 1 => w.out.kind = "pipe" /\ w.out.k = i + 1)
                /\ (i = n - 1 /\ cur.out_fd # -1 =>
                        w.out.kind = "fd" /\ w.out.fd = cur.out_fd)
                /\ (i = n - 1 /\ cur.out_fd = -1 => w.out.kind = "inherited")
                /\ (Live(w.pid) =>
                        procs[w.pid].holds =
                            {<<w.in.k, "r">> : x \in {y \in {1} : w.in.kind = "pipe"}}
                              \cup {<<w.out.k, "w">> : x \in {y \in {1} : w.out.kind = "pipe"}})

\* the three stages of "a | b | c" with both an input and an output file
\* given: stage 0 reads the file, stage 1 is between the pipes, stage 2
\* writes the file
C26_Witness ==
    /\ pc = "pl_wait" /\ cur.n = 3 /\ cur.in_fd # -1 /\ cur.out_fd # -1
    /\ Len(g.run.wired) = 3
    /\ g.run.wired[1].in = GivenFd(cur.in_fd) /\ g.run.wired[1].out = PipeEnd(1)
    /\ g.run.wired[2].in = PipeEnd(1) /\ g.run.wired[2].out = PipeEnd(2)
    /\ g.run.wired[3].in = PipeEnd(2) /\ g.run.wired[3].out = GivenFd(cur.out_fd)


\* the last file_redirect of rs for standard input (inp) or for standard
\* output, 0 if there is none
LastOf(rs, inp) ==
    LET K == {k \in 1..Len(rs) : rs[k].is_input = inp}
    IN  IF K = {} THEN 0 ELSE CHOOSE k \in K : \A m \in K : m <= k

\* the body of a redirected statement is running
InBody == cur.redir /\ pc \in {"rc_wait", "pl_fork", "pl_close", "pl_wait"}

\* C27: with several redirections for one stream the body of a redirected
\* statement runs with the last of them and the descriptors opened for the
\* earlier ones are closed; when handle_redirected_statement has returned,
\* by whichever path, the shell holds none of the descriptors it opened.
C27_RedirectFds ==
    /\ pc = "rc_wait" =>
          /\ g.rd.in_k = LastOf(g.rd.rs, TRUE)
          /\ g.rd.out_k = LastOf(g.rd.rs, FALSE)
          /\ (g.rd.in_k = 0 <=> cur.in_fd = -1)
          /\ (g.rd.out_k = 0 <=> cur.out_fd = -1)
    /\ InBody =>
          /\ pfds \ PipeFds(pipes, Len(pipes)) = {cur.in_fd, cur.out_fd} \ {-1}
          /\ cur.in_fd # cur.out_fd
    /\ pc \in {"prog", "read", "exit"} => pfds = {}

\* "cmd > f > f2" has run and returned: the second file was the one passed on
C27_Witness ==
    /\ pc = "prog" /\ g.wait.who = "rc" /\ g.wait.ok
    /\ Len(g.rd.rs) = 2 /\ ~g.rd.rs[1].is_input /\ ~g.rd.rs[2].is_input
    /\ g.rd.out_k = 2 /\ g.rd.in_k = 0
    /\ pfds = {}


\* the descriptors the runner in progress has handed to its children: the
\* ends of its pipes and the files of the redirected statement
HandedOver == PipeFds(pipes, Len(pipes)) \cup ({cur.in_fd, cur.out_fd} \ {-1})

\* C28: a descriptor the shell has handed to a child by fork (a redirection
\* file passed to run_command_with_io / run_pipeline_with_io, a pipe end) is
\* closed in the shell before the shell starts to wait for that child.
C28_ClosedBeforeWait ==
    pc \in WaitPcs => pfds \cap HandedOver = {}

\* C28 as the code has it: the pipe ends are closed in the shell before it
\* waits; the files of a redirected statement stay open in the shell while
\* it waits and are closed when the body has returned.
C28_PipesClosedBeforeWait ==
    /\ pc \in WaitPcs => pfds \cap PipeFds(pipes, Len(pipes)) = {}
    /\ (pc \in {"rc_wait", "pl_wait"} /\ cur.redir) =>
           pfds = {cur.in_fd, cur.out_fd} \ {-1}
    /\ pc \in {"prog", "read", "exit"} => pfds = {}

\* the shell waits for the three stages of a pipeline with an input and an
\* output file: it holds the two files and no pipe end
C28_Witness ==
    /\ pc = "pl_wait" /\ cur.redir /\ cur.n = 3
    /\ cur.in_fd # -1 /\ cur.out_fd # -1
    /\ pfds = {cur.in_fd, cur.out_fd}
    /\ \E p \in Pids : Live(p)


\* C29: expand_one_arg never returns the null pointer; when an allocation
\* fails inside it the result is the empty string and the error is EXPAND_OOM.
C29_NeverNull ==
    g.mem.done =>
        \A k \in 1..Len(g.mem.calls) :
            /\ ~g.mem.calls[k].ret.null
            /\ ~g.mem.mem[k].alloc =>
                   (g.mem.calls[k].ret.s = <<>> /\ g.mem.calls[k].err = "EXPAND_OOM")

\* C30: when the allocation of one element of argv fails, expand_to_argv
\* frees what it has allocated and returns the null pointer with EXPAND_OOM;
\* the command is not run and last_status is 1.
C30_ElementFailure ==
    (/\ g.mem.done /\ g.mem.calloc
     /\ \E k \in 1..Len(g.mem.calls) : ~g.mem.mem[k].alloc) =>
        /\ g.mem.null /\ g.mem.err = "EXPAND_OOM" /\ g.mem.live = 0
        /\ ~g.cmd.done
        /\ last_status = 1


\* C31: a variable assignment does the same at every dispatch site: as a
\* statement of the program and as an operand of a list it sets the variable
\* in the environment and its status is 0.
C31_AssignmentAnywhere ==
    g.asg.done =>
        /\ env[g.asg.name] = [set |-> TRUE, val |-> g.asg.valn.text]
        /\ last_status = 0


\* C32: a pipeline run by handle_pipeline (a statement of the program) and
\* the same pipeline run by run_pipeline_with_io (an operand of a list) give
\* every stage the same argv: the fully expanded one.
C32_SameStageArgv ==
    InPipeline =>
        \A j \in 1..Len(g.run.wired) :
            g.run.wired[j].argv =
                expand_to_argv(cur.name, cur.args, last_status, env,
                               getpid(g.run.wired[j].pid), NoSub)


C39_ChildMask ==
    \A p \in Pids :
        (/\ procs[p].state = "running"
         /\ ChildPath(procs[p].site, procs[p].noredir, procs[p].noexec) = "exec") =>
            ~procs[p].mask


\* C34: every waitpid of a runner is for a pid that a successful fork
\* returned, never for -1 or 0, also when a fork of the statement failed; and
\* once the statement is over no child of it is left unreaped.
C34_WaitsForOwnChildren ==
    /\ pc \in {"cmd_wait", "rc_wait"} => pids[1] > 0
    /\ pc = "pl_wait" => pids[cur.i + 1] > 0
    /\ pc \in {"prog", "read", "exit"} => \A p \in Pids : procs[p].state = "none"


\* C37: handle_redirected_statement closes every descriptor it opens exactly
\* once: it never calls close on a descriptor it has closed already, also
\* when a later open for the same stream fails.
C37_ClosedOnce ==
    /\ ~g.rd.reclosed
    /\ pc \in {"prog", "read", "exit"} => pfds = {}

\* C38: a redirected statement that is not run because one of its targets
\* cannot be opened leaves the file system as it was: none of its other
\* targets has been created or truncated.
C38_NothingCreated ==
    g.rd.diag # "none" => g.rd.made = {}


\* C35: what reaches standard output is in the order in which the statements
\* produced it: what the builtin echo wrote is there before anything the
\* child of a later statement writes, on a terminal and off it.
C35_SourceOrder ==
    \A i, j \in DOMAIN stdio.out :
        i < j => stdio.out[i].seq <= stdio.out[j].seq

\* C36: what the builtin echo wrote reaches standard output exactly once: no
\* child writes out the copy of the pending buffer it got at the fork.
C36_ExactlyOnce ==
    LET all == stdio.out \o stdio.buf
    IN  /\ \A i, j \in DOMAIN all : all[i] = all[j] => i = j
        /\ pc = "exit" => stdio.buf = <<>>

=============================================================================
